---- MODULE Spec2Model ----
(***************************************************************************)
(* Page Object layer of the Playwright scaffold: BasePage, LoginPage,      *)
(* HomePage and the test fixtures, over an abstract browser page.          *)
(*                                                                         *)
(* A page-object method is an operator from the page state, its arguments  *)
(* and the outcomes of the automation calls it awaits to a result record   *)
(*   [page, out, log, calls]                                               *)
(* holding the page afterwards, what the caller observes (a value, a       *)
(* raised error, or a call that never settles), the log entries written    *)
(* and the automation calls issued, in order.                              *)
(***************************************************************************)
EXTENDS Integers, Sequences, FiniteSets, TLC

VARIABLES page, objs, last, fx, prev, fresh, cases, data, conc

\* The state outside the page objects of one test: the freshPage fixture,
\* the test cases of a run, the test data and configuration objects, and
\* operations issued without being awaited.
aux == <<fresh, cases, data, conc>>

vars == <<page, objs, last, fx, prev, aux>>

(***************************************************************************)
(* Configuration (utils/config.js, playwright.config.js)                   *)
(***************************************************************************)
SHORT == 2000
NAVIGATION == 8000
ELEMENT == 3000
MEDIUM_DELAY == 1000
SHORT_DELAY == 500

\* playwright.config.js sets use.navigationTimeout and no use.actionTimeout:
\* a navigation call given no timeout gets NAVIGATION, an action call given
\* none gets no timeout at all (0).
navigationTimeout == NAVIGATION
actionTimeout == 0

CREDENTIALS ==
  [email |-> "test@example.com", password |-> "testPassword123",
   invalidEmail |-> "invalid@test.com", invalidPassword |-> "wrongPassword"]

\* A timeout a caller supplies through options.
CallerTimeout == 1500

(***************************************************************************)
(* The browser page as the layer sees it                                   *)
(***************************************************************************)
NULL == "null"
H1 == "page1"
H2 == "page2"

\* Most page objects one test constructs, and most products a page lists.
MaxObjects == 2
MaxProducts == 1

\* The elements the page objects locate.
Elements ==
  {"email", "password", "submit", "alert", "labelled",
   "grid", "noResults", "featured", "badge",
   "search", "searchBtn", "product", "addToCart", "sortBtn", "option", "filter", "clearBtn"}

\* An element's text content: a string of characters, or null.
Txt(chars) == [isNull |-> FALSE, chars |-> chars]
NullTxt == [isNull |-> TRUE, chars |-> <<>>]

TextOf(p, el) ==
  IF el = "alert" THEN p.alertText
  ELSE IF el = "badge" THEN p.badge
  ELSE Txt(<<"t", "x", "t">>)

\* Errors the automation library rejects with.
TimeoutError == "TimeoutError"
LibErrors == {"ErrA", "ErrB"}
\* What may go wrong in one automation call: nothing, a rejection with a
\* library error, or the awaited condition never coming about.
Faults == {"none", "stall"} \cup LibErrors

NavApis == {"goto", "goBack", "goForward", "reload"}

NoTimeout == <<>>

Ok(v) == [kind |-> "ok", val |-> v, err |-> "none"]
Raise(e) == [kind |-> "raise", val |-> "none", err |-> e]
Hang == [kind |-> "hang", val |-> "none", err |-> "none"]

CallRec(api, el, tmo) == [api |-> api, el |-> el, tmo |-> tmo]

\* The timeout in force for a call: the one passed, else the runner's default.
EffTimeout(api, tmo) ==
  IF tmo # NoTimeout THEN tmo[1]
  ELSE IF api \in NavApis THEN navigationTimeout ELSE actionTimeout

\* A call whose condition never comes about rejects when its timeout runs
\* out, and never settles when it has none: the method stays suspended on
\* it until the runner gives the whole test up.
Stalled(api, tmo) ==
  IF EffTimeout(api, tmo) > 0 THEN Raise(TimeoutError) ELSE Hang

\* The application under test: submitting valid credentials authenticates
\* and takes the login form away; anything else keeps the form and shows
\* an alert.
Submit(p) ==
  IF p.email = CREDENTIALS.email /\ p.pwd = CREDENTIALS.password
    THEN [p EXCEPT !.auth = TRUE,
                   !.vis = @ \ {"email", "password", "submit", "alert", "labelled"}]
    ELSE [p EXCEPT !.vis = @ \cup {"alert"}]

SetField(p, el, v) ==
  IF el = "email" THEN [p EXCEPT !.email = v]
  ELSE IF el \in {"password", "labelled"} THEN [p EXCEPT !.pwd = v]
  ELSE p

\* A (re)load of the document empties the form fields and drops the alert.
Loaded(p) == [p EXCEPT !.email = "", !.pwd = "", !.vis = @ \ {"alert"}]

\* One awaited call on the automation library: << outcome, page after >>.
Auto(p, api, el, v, tmo, f) ==
  IF f \in LibErrors THEN <<Raise(f), p>>
  ELSE IF api \in NavApis THEN
    IF f = "stall" THEN <<Stalled(api, tmo), p>> ELSE <<Ok("response"), Loaded(p)>>
  ELSE IF api = "isVisible" THEN <<Ok(el \in p.vis), p>>
  ELSE IF api = "count" THEN <<Ok(p.products), p>>
  ELSE IF api = "screenshot" THEN <<Ok("buffer"), p>>
  ELSE IF f = "stall" \/ el \notin p.vis THEN <<Stalled(api, tmo), p>>
  ELSE IF api = "click" THEN <<Ok("done"), IF el = "submit" THEN Submit(p) ELSE p>>
  ELSE IF api = "fill" THEN <<Ok("done"), SetField(p, el, v)>>
  ELSE IF api = "clear" THEN <<Ok("done"), SetField(p, el, "")>>
  ELSE IF api = "textContent" THEN <<Ok(TextOf(p, el)), p>>
  ELSE <<Ok("done"), p>>

(***************************************************************************)
(* Logger (utils/logger.js): an observability sink                         *)
(***************************************************************************)
Entry(lvl, msg, cause) == [lvl |-> lvl, msg |-> msg, cause |-> cause]

Res(p, out, log, calls) == [page |-> p, out |-> out, log |-> log, calls |-> calls]

\* A catch block that throws a new error in place of the one it caught.
CaughtWrapped(a, pre, msg, calls) ==
  [page |-> a[2], out |-> [kind |-> "raise", val |-> "none", err |-> msg],
   log |-> pre \o <<[lvl |-> "error", msg |-> msg, cause |-> a[1].err]>>, calls |-> calls]

\* catch (error) { logger.error(msg, error); throw error; }
Caught(a, pre, msg, calls) ==
  Res(a[2], Raise(a[1].err), pre \o <<Entry("error", msg, a[1].err)>>, calls)

\* The awaited call never settles: the method is still suspended on it.
Pending(a, pre, calls) == Res(a[2], Hang, pre, calls)

\* r, and when it returned normally the step n that was run on the page it
\* left; n is not run at all when r did not return.
Then(r, n) ==
  IF r.out.kind # "ok" THEN r
  ELSE Res(n.page, n.out, r.log \o n.log, r.calls \o n.calls)

(***************************************************************************)
(* BasePage                                                                *)
(***************************************************************************)
\* options.timeout as a caller gives it: absent, 0 (no timeout) or a time.
Opts == {NoTimeout, <<0>>, <<CallerTimeout>>}

\* options.timeout || dflt
OrDefault(opt, dflt) == IF opt = NoTimeout \/ opt[1] = 0 THEN dflt ELSE opt[1]

\* { timeout, ...options }: a timeout key in options overrides.
Spread(timeout, opt) == IF opt = NoTimeout THEN <<timeout>> ELSE opt

LocatorKinds == {"role", "text", "testId"}
UnknownLocatorType == "Unknown locator type"

goto(p, opt, f) ==
  LET timeout == OrDefault(opt, NAVIGATION)
      calls == <<CallRec("goto", "url", <<timeout>>)>>
      pre == <<Entry("info", "Navigating to", "none")>>
      a == Auto(p, "goto", "url", "", <<timeout>>, f)
  IN CASE a[1].kind = "ok" ->
            Res(a[2], a[1], pre \o <<Entry("pass", "Successfully navigated to", "none")>>, calls)
       [] a[1].kind = "raise" -> Caught(a, pre, "Failed to navigate to", calls)
       [] OTHER -> Pending(a, pre, calls)

clickByRole(p, el, opt, f) ==
  LET timeout == OrDefault(opt, ELEMENT)
      passed == Spread(timeout, opt)
      calls == <<CallRec("click", el, passed)>>
      a == Auto(p, "click", el, "", passed, f)
  IN CASE a[1].kind = "ok" ->
            Res(a[2], Ok("void"), <<Entry("pass", "Clicked element with role", "none")>>, calls)
       [] a[1].kind = "raise" -> Caught(a, <<>>, "Failed to click element with role", calls)
       [] OTHER -> Pending(a, <<>>, calls)

\* A click that logs nothing when it succeeds.
clickByTextSilent(p, el, opt, f) ==
  LET timeout == OrDefault(opt, ELEMENT)
      passed == Spread(timeout, opt)
      calls == <<CallRec("click", el, passed)>>
      a == Auto(p, "click", el, "", passed, f)
  IN CASE a[1].kind = "ok" -> Res(a[2], Ok("void"), <<>>, calls)
       [] a[1].kind = "raise" ->
            Res(a[2], Raise(a[1].err),
                <<Entry("error", "Failed to click element with text", a[1].err)>>, calls)
       [] OTHER -> Res(a[2], Hang, <<>>, calls)

clickByText(p, el, opt, f) ==
  LET timeout == OrDefault(opt, ELEMENT)
      passed == Spread(timeout, opt)
      calls == <<CallRec("click", el, passed)>>
      a == Auto(p, "click", el, "", passed, f)
  IN CASE a[1].kind = "ok" ->
            Res(a[2], Ok("void"), <<Entry("pass", "Clicked element with text", "none")>>, calls)
       [] a[1].kind = "raise" -> Caught(a, <<>>, "Failed to click element with text", calls)
       [] OTHER -> Pending(a, <<>>, calls)

clickByTestId(p, el, opt, f) ==
  LET timeout == OrDefault(opt, ELEMENT)
      passed == Spread(timeout, opt)
      calls == <<CallRec("click", el, passed)>>
      a == Auto(p, "click", el, "", passed, f)
  IN CASE a[1].kind = "ok" ->
            Res(a[2], Ok("void"), <<Entry("pass", "Clicked element with testId", "none")>>, calls)
       [] a[1].kind = "raise" -> Caught(a, <<>>, "Failed to click element with testId", calls)
       [] OTHER -> Pending(a, <<>>, calls)

fillInput(p, el, v, opt, f) ==
  LET calls == <<CallRec("fill", el, opt)>>
      a == Auto(p, "fill", el, v, opt, f)
  IN CASE a[1].kind = "ok" ->
            Res(a[2], Ok("void"), <<Entry("pass", "Filled input", "none")>>, calls)
       [] a[1].kind = "raise" -> Caught(a, <<>>, "Failed to fill input", calls)
       [] OTHER -> Pending(a, <<>>, calls)

\* A fillPassword whose outer catch keeps the first attempt's error.
fillPasswordFirstError(p, name, v, opt, fs) ==
  LET c1 == CallRec("fill", "labelled", opt)
      c2 == CallRec("fill", name, opt)
      a == Auto(p, "fill", "labelled", v, opt, fs[1])
      b == Auto(a[2], "fill", name, v, opt, fs[2])
  IN CASE a[1].kind = "ok" ->
            Res(a[2], Ok("void"),
                <<Entry("pass", "Filled password field with masked value", "none")>>, <<c1>>)
       [] a[1].kind = "hang" -> Pending(a, <<>>, <<c1>>)
       [] a[1].kind = "raise" /\ b[1].kind = "ok" ->
            Res(b[2], Ok("void"),
                <<Entry("pass", "Filled password field with placeholder", "none")>>, <<c1, c2>>)
       [] a[1].kind = "raise" /\ b[1].kind = "raise" ->
            Caught(a, <<>>, "Failed to fill password field", <<c1, c2>>)
       [] OTHER -> Pending(b, <<>>, <<c1, c2>>)

\* fs[1] is what befalls the label-associated attempt, fs[2] the fallback.
fillPassword(p, name, v, opt, fs) ==
  LET c1 == CallRec("fill", "labelled", opt)
      c2 == CallRec("fill", name, opt)
      a == Auto(p, "fill", "labelled", v, opt, fs[1])
      b == Auto(a[2], "fill", name, v, opt, fs[2])
  IN CASE a[1].kind = "ok" ->
            Res(a[2], Ok("void"),
                <<Entry("pass", "Filled password field with masked value", "none")>>, <<c1>>)
       [] a[1].kind = "hang" -> Pending(a, <<>>, <<c1>>)
       [] a[1].kind = "raise" /\ b[1].kind = "ok" ->
            Res(b[2], Ok("void"),
                <<Entry("pass", "Filled password field with placeholder", "none")>>, <<c1, c2>>)
       [] a[1].kind = "raise" /\ b[1].kind = "raise" ->
            Caught(b, <<>>, "Failed to fill password field", <<c1, c2>>)
       [] OTHER -> Pending(b, <<>>, <<c1, c2>>)

getTextByText(p, el, f) ==
  LET calls == <<CallRec("textContent", el, NoTimeout)>>
      a == Auto(p, "textContent", el, "", NoTimeout, f)
  IN CASE a[1].kind = "ok" ->
            Res(a[2], Ok(IF a[1].val.isNull THEN Txt(<<>>) ELSE a[1].val),
                <<Entry("debug", "Retrieved text", "none")>>, calls)
       [] a[1].kind = "raise" -> Caught(a, <<>>, "Failed to get text for", calls)
       [] OTHER -> Pending(a, <<>>, calls)

\* An isVisible whose catch block re-raises what it caught.
isVisibleRethrows(p, kind, el, f) ==
  LET calls == <<CallRec("isVisible", el, <<SHORT>>)>>
      a == Auto(p, "isVisible", el, "", <<SHORT>>, f)
  IN IF kind \notin LocatorKinds
       THEN Res(p, Raise(UnknownLocatorType),
                <<Entry("debug", "Element not visible", "none")>>, <<>>)
     ELSE IF a[1].kind = "ok"
       THEN Res(a[2], a[1], <<Entry("debug", "Element visibility check", "none")>>, calls)
     ELSE Res(a[2], a[1], <<Entry("debug", "Element not visible", "none")>>, calls)

isVisible(p, kind, el, f) ==
  LET calls == <<CallRec("isVisible", el, <<SHORT>>)>>
      a == Auto(p, "isVisible", el, "", <<SHORT>>, f)
  IN IF kind \notin LocatorKinds
       THEN Res(p, Ok(FALSE), <<Entry("debug", "Element not visible", "none")>>, <<>>)
     ELSE IF a[1].kind = "ok"
       THEN Res(a[2], a[1], <<Entry("debug", "Element visibility check", "none")>>, calls)
     ELSE Res(a[2], Ok(FALSE), <<Entry("debug", "Element not visible", "none")>>, calls)

\* tmo is the timeout argument: absent (ELEMENT by default) or given.
waitForVisibility(p, kind, el, tmo, f) ==
  LET timeout == IF tmo = NoTimeout THEN <<ELEMENT>> ELSE tmo
      calls == <<CallRec("waitFor", el, timeout)>>
      a == Auto(p, "waitFor", el, "", timeout, f)
  IN IF kind \notin LocatorKinds
       THEN Res(p, Raise(UnknownLocatorType),
                <<Entry("error", "Element did not become visible", UnknownLocatorType)>>, <<>>)
     ELSE CASE a[1].kind = "ok" ->
                 Res(a[2], Ok("void"), <<Entry("pass", "Element became visible", "none")>>, calls)
            [] a[1].kind = "raise" -> Caught(a, <<>>, "Element did not become visible", calls)
            [] OTHER -> Pending(a, <<>>, calls)

\* this.page.url()
getUrl(o) == IF o.page = NULL THEN Raise("TypeError") ELSE Ok(<<"url", o.page>>)

\* setTimeout(resolve, ms): no call on the page.
delay(p, ms) == Res(p, Ok("void"), <<>>, <<CallRec("delay", "timer", <<ms>>)>>)

goBack(p, f) ==
  LET calls == <<CallRec("goBack", "history", NoTimeout)>>
      a == Auto(p, "goBack", "history", "", NoTimeout, f)
  IN CASE a[1].kind = "ok" ->
            Res(a[2], Ok("void"), <<Entry("pass", "Navigated back", "none")>>, calls)
       [] a[1].kind = "raise" -> Caught(a, <<>>, "Failed to navigate back", calls)
       [] OTHER -> Pending(a, <<>>, calls)

goForward(p, f) ==
  LET calls == <<CallRec("goForward", "history", NoTimeout)>>
      a == Auto(p, "goForward", "history", "", NoTimeout, f)
  IN CASE a[1].kind = "ok" ->
            Res(a[2], Ok("void"), <<Entry("pass", "Navigated forward", "none")>>, calls)
       [] a[1].kind = "raise" -> Caught(a, <<>>, "Failed to navigate forward", calls)
       [] OTHER -> Pending(a, <<>>, calls)

refresh(p, f) ==
  LET calls == <<CallRec("reload", "document", NoTimeout)>>
      a == Auto(p, "reload", "document", "", NoTimeout, f)
  IN CASE a[1].kind = "ok" ->
            Res(a[2], Ok("void"), <<Entry("pass", "Page refreshed", "none")>>, calls)
       [] a[1].kind = "raise" -> Caught(a, <<>>, "Failed to refresh page", calls)
       [] OTHER -> Pending(a, <<>>, calls)

takeScreenshot(p, f) ==
  LET calls == <<CallRec("screenshot", "viewport", NoTimeout)>>
      a == Auto(p, "screenshot", "viewport", "", NoTimeout, f)
  IN CASE a[1].kind = "ok" ->
            Res(a[2], a[1], <<Entry("info", "Screenshot saved", "none")>>, calls)
       [] a[1].kind = "raise" -> Caught(a, <<>>, "Failed to take screenshot", calls)
       [] OTHER -> Pending(a, <<>>, calls)

(***************************************************************************)
(* Page-object construction                                                *)
(***************************************************************************)
\* A constructor that takes whatever it is given.
BasePageCtorUnchecked(cls, h) ==
  [out |-> [kind |-> "ok", val |-> "object", err |-> "none"],
   made |-> <<[cls |-> cls, page |-> h]>>, log |-> <<>>]

\* new BasePage(page): << outcome, the object when one was made, log >>.
BasePageCtor(cls, h) ==
  IF h = NULL
    THEN [out |-> Raise("Page object is required to initialize BasePage"),
          made |-> <<>>, log |-> <<>>]
    ELSE [out |-> Ok("object"), made |-> <<[cls |-> cls, page |-> h]>>, log |-> <<>>]

LoginPageCtor(h) ==
  LET b == BasePageCtor("LoginPage", h)
  IN IF b.out.kind = "ok"
       THEN [b EXCEPT !.log = <<Entry("info", "LoginPage initialized", "none")>>]
       ELSE b

HomePageCtor(h) ==
  LET b == BasePageCtor("HomePage", h)
  IN IF b.out.kind = "ok"
       THEN [b EXCEPT !.log = <<Entry("info", "HomePage initialized", "none")>>]
       ELSE b

(***************************************************************************)
(* LoginPage                                                               *)
(***************************************************************************)
navigateToLogin(p, f) ==
  LET r == goto(p, NoTimeout, f)
  IN CASE r.out.kind = "ok" ->
            Res(r.page, Ok("void"),
                r.log \o <<Entry("pass", "Navigated to login page", "none")>>, r.calls)
       [] r.out.kind = "raise" ->
            Res(r.page, Raise(r.out.err),
                r.log \o <<Entry("error", "Failed to navigate to login page", r.out.err)>>,
                r.calls)
       [] OTHER -> r

enterEmail(p, email, f) ==
  LET calls == <<CallRec("fill", "email", <<ELEMENT>>)>>
      a == Auto(p, "fill", "email", email, <<ELEMENT>>, f)
  IN CASE a[1].kind = "ok" ->
            Res(a[2], Ok("void"), <<Entry("pass", "Entered email", "none")>>, calls)
       [] a[1].kind = "raise" -> Caught(a, <<>>, "Failed to enter email", calls)
       [] OTHER -> Pending(a, <<>>, calls)

enterPassword(p, password, f) ==
  LET calls == <<CallRec("fill", "password", <<ELEMENT>>)>>
      a == Auto(p, "fill", "password", password, <<ELEMENT>>, f)
  IN CASE a[1].kind = "ok" ->
            Res(a[2], Ok("void"), <<Entry("pass", "Entered password", "none")>>, calls)
       [] a[1].kind = "raise" -> Caught(a, <<>>, "Failed to enter password", calls)
       [] OTHER -> Pending(a, <<>>, calls)

clickLoginButton(p, f) ==
  LET calls == <<CallRec("click", "submit", <<ELEMENT>>)>>
      a == Auto(p, "click", "submit", "", <<ELEMENT>>, f)
      d == delay(a[2], MEDIUM_DELAY)
  IN CASE a[1].kind = "ok" ->
            Res(d.page, Ok("void"), <<Entry("pass", "Clicked login button", "none")>>,
                calls \o d.calls)
       [] a[1].kind = "raise" -> Caught(a, <<>>, "Failed to click login button", calls)
       [] OTHER -> Pending(a, <<>>, calls)

\* A login that raises when the application turned the credentials down.
loginChecksOutcome(p, email, password, fs) ==
  LET pre == <<Entry("info", "Starting login process", "none")>>
      r1 == enterEmail(p, email, fs[1])
      r2 == Then(r1, enterPassword(r1.page, password, fs[2]))
      r == Then(r2, clickLoginButton(r2.page, fs[3]))
  IN CASE r.out.kind = "ok" /\ r.page.auth ->
            Res(r.page, Ok("void"),
                pre \o r.log \o <<Entry("pass", "Login completed successfully", "none")>>,
                r.calls)
       [] r.out.kind = "ok" /\ ~r.page.auth ->
            Res(r.page, Raise("Invalid credentials"),
                pre \o r.log \o <<Entry("error", "Login process failed", "Invalid credentials")>>,
                r.calls)
       [] r.out.kind = "raise" ->
            Res(r.page, Raise(r.out.err),
                pre \o r.log \o <<Entry("error", "Login process failed", r.out.err)>>,
                r.calls)
       [] OTHER -> Res(r.page, Hang, pre \o r.log, r.calls)

\* A login that goes on to the later steps after a step has failed.
loginKeepsGoing(p, email, password, fs) ==
  LET r1 == enterEmail(p, email, fs[1])
      r2 == enterPassword(r1.page, password, fs[2])
      r3 == clickLoginButton(r2.page, fs[3])
      out == IF r1.out.kind # "ok" THEN r1.out
             ELSE IF r2.out.kind # "ok" THEN r2.out ELSE r3.out
  IN Res(r3.page, out, r1.log \o r2.log \o r3.log, r1.calls \o r2.calls \o r3.calls)

\* fs[1], fs[2], fs[3]: what befalls the fill, the fill and the click.
login(p, email, password, fs) ==
  LET pre == <<Entry("info", "Starting login process", "none")>>
      r1 == enterEmail(p, email, fs[1])
      r2 == Then(r1, enterPassword(r1.page, password, fs[2]))
      r == Then(r2, clickLoginButton(r2.page, fs[3]))
  IN CASE r.out.kind = "ok" ->
            Res(r.page, Ok("void"),
                pre \o r.log \o <<Entry("pass", "Login completed successfully", "none")>>,
                r.calls)
       [] r.out.kind = "raise" ->
            Res(r.page, Raise(r.out.err),
                pre \o r.log \o <<Entry("error", "Login process failed", r.out.err)>>,
                r.calls)
       [] OTHER -> Res(r.page, Hang, pre \o r.log, r.calls)

\* locator.isVisible({ timeout }).catch(() => false)
Probe(p, el, tmo, f) ==
  LET a == Auto(p, "isVisible", el, "", <<tmo>>, f)
  IN IF a[1].kind = "ok" THEN a[1].val ELSE FALSE

\* fs[1]: the visibility probe, fs[2]: the text read.
getErrorMessage(p, fs) ==
  LET c1 == CallRec("isVisible", "alert", <<SHORT>>)
      c2 == CallRec("textContent", "alert", NoTimeout)
      a == Auto(p, "textContent", "alert", "", NoTimeout, fs[2])
  IN IF ~Probe(p, "alert", SHORT, fs[1]) THEN Res(p, Ok(NullTxt), <<>>, <<c1>>)
     ELSE CASE a[1].kind = "ok" ->
                 Res(a[2], a[1], <<Entry("warn", "Error message found", "none")>>, <<c1, c2>>)
            [] a[1].kind = "raise" ->
                 Res(a[2], Ok(NullTxt), <<Entry("debug", "No error message found", "none")>>,
                     <<c1, c2>>)
            [] OTHER -> Pending(a, <<>>, <<c1, c2>>)

\* String.prototype.trim, over the characters of the model
RECURSIVE TrimLeft(_)
TrimLeft(cs) == IF cs # <<>> /\ Head(cs) = " " THEN TrimLeft(Tail(cs)) ELSE cs

RECURSIVE TrimRight(_)
TrimRight(cs) ==
  IF cs # <<>> /\ cs[Len(cs)] = " " THEN TrimRight(SubSeq(cs, 1, Len(cs) - 1)) ELSE cs

Trim(cs) == TrimRight(TrimLeft(cs))

\* A check that takes a message of blanks for an error.
isErrorDisplayedUntrimmed(p, fs) ==
  LET r == getErrorMessage(p, fs)
  IN IF r.out.kind # "ok" THEN r
     ELSE Res(r.page, Ok(~r.out.val.isNull /\ Len(r.out.val.chars) > 0), r.log, r.calls)

isErrorDisplayed(p, fs) ==
  LET r == getErrorMessage(p, fs)
  IN IF r.out.kind # "ok" THEN r
     ELSE Res(r.page, Ok(~r.out.val.isNull /\ Len(Trim(r.out.val.chars)) > 0), r.log, r.calls)

\* A check that gives up at the first probe that rejects.
isLoginFormDisplayedFailFast(p, fs) ==
  LET els == <<"email", "password", "submit">>
      bad == {k \in 1..3 : fs[k] \in LibErrors}
      n == IF bad = {} THEN 3 ELSE CHOOSE k \in bad : \A j \in bad : k <= j
      isDisplayed == bad = {} /\ \A k \in 1..3 : els[k] \in p.vis
  IN Res(p, Ok(isDisplayed),
         <<IF isDisplayed THEN Entry("pass", "Login form is displayed", "none")
                          ELSE Entry("warn", "Login form is NOT fully displayed", "none")>>,
         [k \in 1..n |-> CallRec("isVisible", els[k], <<SHORT>>)])

\* fs[1..3]: the probes of the email field, the password field, the button.
isLoginFormDisplayed(p, fs) ==
  LET emailVisible == Probe(p, "email", SHORT, fs[1])
      passwordVisible == Probe(p, "password", SHORT, fs[2])
      buttonVisible == Probe(p, "submit", SHORT, fs[3])
      isDisplayed == emailVisible /\ passwordVisible /\ buttonVisible
      calls == <<CallRec("isVisible", "email", <<SHORT>>),
                 CallRec("isVisible", "password", <<SHORT>>),
                 CallRec("isVisible", "submit", <<SHORT>>)>>
  IN Res(p, Ok(isDisplayed),
         <<IF isDisplayed THEN Entry("pass", "Login form is displayed", "none")
                          ELSE Entry("warn", "Login form is NOT fully displayed", "none")>>,
         calls)

\* A check that answers false when it could not probe the page.
verifyLoginSuccessStrict(p, f) ==
  LET calls == <<CallRec("isVisible", "email", <<SHORT>>)>>
  IN IF f \in LibErrors
       THEN Res(p, Ok(FALSE), <<Entry("error", "Failed to verify login success", f)>>, calls)
     ELSE IF "email" \notin p.vis
       THEN Res(p, Ok(TRUE), <<Entry("pass", "Successfully verified login", "none")>>, calls)
     ELSE Res(p, Ok(FALSE), <<Entry("warn", "Login verification failed", "none")>>, calls)

\* A check that reports success whatever the page shows.
verifyLoginSuccessAlways(p, f) ==
  Res(p, Ok(TRUE), <<Entry("pass", "Successfully verified login", "none")>>,
      <<CallRec("isVisible", "email", <<SHORT>>)>>)

verifyLoginSuccess(p, f) ==
  LET isLoginPageStillVisible == Probe(p, "email", SHORT, f)
      calls == <<CallRec("isVisible", "email", <<SHORT>>)>>
  IN IF ~isLoginPageStillVisible
       THEN Res(p, Ok(TRUE), <<Entry("pass", "Successfully verified login", "none")>>, calls)
       ELSE Res(p, Ok(FALSE), <<Entry("warn", "Login verification failed", "none")>>, calls)

\* A clear that reports success and leaves the field as it was.
clearEmailKeeps(p, f) ==
  Res(p, Ok("void"), <<Entry("debug", "Email field cleared", "none")>>,
      <<CallRec("clear", "email", NoTimeout)>>)

clearEmail(p, f) ==
  LET calls == <<CallRec("clear", "email", NoTimeout)>>
      a == Auto(p, "clear", "email", "", NoTimeout, f)
  IN CASE a[1].kind = "ok" ->
            Res(a[2], Ok("void"), <<Entry("debug", "Email field cleared", "none")>>, calls)
       [] a[1].kind = "raise" -> Caught(a, <<>>, "Failed to clear email field", calls)
       [] OTHER -> Pending(a, <<>>, calls)

clearPassword(p, f) ==
  LET calls == <<CallRec("clear", "password", NoTimeout)>>
      a == Auto(p, "clear", "password", "", NoTimeout, f)
  IN CASE a[1].kind = "ok" ->
            Res(a[2], Ok("void"), <<Entry("debug", "Password field cleared", "none")>>, calls)
       [] a[1].kind = "raise" -> Caught(a, <<>>, "Failed to clear password field", calls)
       [] OTHER -> Pending(a, <<>>, calls)

(***************************************************************************)
(* HomePage                                                                *)
(***************************************************************************)
getProductCount(p, f) ==
  LET calls == <<CallRec("count", "products", NoTimeout)>>
      a == Auto(p, "count", "products", "", NoTimeout, f)
  IN IF a[1].kind = "ok"
       THEN Res(a[2], a[1], <<Entry("debug", "Product count", "none")>>, calls)
       ELSE Res(a[2], Ok(0), <<Entry("error", "Failed to get product count", a[1].err)>>, calls)

Digits == <<"0", "1", "2", "3", "4", "5", "6", "7", "8", "9">>
IsDigit(c) == \E i \in DOMAIN Digits : Digits[i] = c
DigitVal(c) == (CHOOSE i \in DOMAIN Digits : Digits[i] = c) - 1

\* count.replace(/\D/g, '')
RECURSIVE StripNonDigits(_)
StripNonDigits(cs) ==
  IF cs = <<>> THEN <<>>
  ELSE IF IsDigit(Head(cs)) THEN <<Head(cs)>> \o StripNonDigits(Tail(cs))
  ELSE StripNonDigits(Tail(cs))

\* parseInt of a string of decimal digits
RECURSIVE ParseDigits(_)
ParseDigits(ds) ==
  IF ds = <<>> THEN 0
  ELSE 10 * ParseDigits(SubSeq(ds, 1, Len(ds) - 1)) + DigitVal(ds[Len(ds)])

\* A parse that keeps a leading minus sign.
ParseCountSigned(t) ==
  LET ds == IF t.isNull THEN <<>> ELSE StripNonDigits(t.chars)
      n == ParseDigits(IF ds = <<>> THEN <<"0">> ELSE ds)
  IN IF ~t.isNull /\ t.chars # <<>> /\ Head(t.chars) = "-" THEN 0 - n ELSE n

\* parseInt(count?.replace(/\D/g, '') || '0')
ParseCount(t) ==
  LET ds == IF t.isNull THEN <<>> ELSE StripNonDigits(t.chars)
  IN ParseDigits(IF ds = <<>> THEN <<"0">> ELSE ds)

\* fs[1]: the visibility probe of the badge, fs[2]: the text read.
getCartItemCount(p, fs) ==
  LET c1 == CallRec("isVisible", "badge", <<SHORT>>)
      c2 == CallRec("textContent", "badge", NoTimeout)
      a == Auto(p, "textContent", "badge", "", NoTimeout, fs[2])
  IN IF ~Probe(p, "badge", SHORT, fs[1]) THEN Res(p, Ok(0), <<>>, <<c1>>)
     ELSE CASE a[1].kind = "ok" ->
                 Res(a[2], Ok(ParseCount(a[1].val)),
                     <<Entry("debug", "Cart item count", "none")>>, <<c1, c2>>)
            [] a[1].kind = "raise" ->
                 Res(a[2], Ok(0), <<Entry("debug", "Failed to get cart item count", "none")>>,
                     <<c1, c2>>)
            [] OTHER -> Pending(a, <<>>, <<c1, c2>>)

isProductGridDisplayed(p, f) ==
  LET v == Probe(p, "grid", SHORT, f)
  IN Res(p, Ok(v),
         <<IF v THEN Entry("pass", "Product grid is displayed", "none")
                ELSE Entry("warn", "Product grid is NOT displayed", "none")>>,
         <<CallRec("isVisible", "grid", <<SHORT>>)>>)

isNoResultsDisplayed(p, f) ==
  LET v == Probe(p, "noResults", SHORT, f)
  IN Res(p, Ok(v),
         IF v THEN <<Entry("pass", "No results message is displayed", "none")>> ELSE <<>>,
         <<CallRec("isVisible", "noResults", <<SHORT>>)>>)

isFeaturedSectionDisplayed(p, f) ==
  LET v == Probe(p, "featured", SHORT, f)
  IN Res(p, Ok(v),
         IF v THEN <<Entry("pass", "Featured section is displayed", "none")>> ELSE <<>>,
         <<CallRec("isVisible", "featured", <<SHORT>>)>>)

\* What became of a call that did not return: the catch block of the
\* method for a rejection, the method left suspended otherwise.
Failed(a, pre, msg, calls) ==
  IF a[1].kind = "raise" THEN Caught(a, pre, msg, calls) ELSE Pending(a, pre, calls)

\* A search that clicks the button and presses Enter as well.
searchProductTwice(p, productName, fs) ==
  LET pre == <<Entry("info", "Searching for product", "none")>>
      msg == "Failed to search for product"
      c1 == CallRec("fill", "search", <<ELEMENT>>)
      c2 == CallRec("isVisible", "searchBtn", <<SHORT>>)
      c3 == CallRec("click", "searchBtn", <<ELEMENT>>)
      c4 == CallRec("press", "search", NoTimeout)
      a1 == Auto(p, "fill", "search", productName, <<ELEMENT>>, fs[1])
      a3 == Auto(a1[2], "click", "searchBtn", "", <<ELEMENT>>, fs[3])
      d == delay(a3[2], MEDIUM_DELAY)
  IN IF a1[1].kind # "ok" THEN Failed(a1, pre, msg, <<c1>>)
     ELSE IF a3[1].kind # "ok" THEN Failed(a3, pre, msg, <<c1, c2, c3>>)
     ELSE Res(d.page, Ok("void"), pre \o <<Entry("pass", "Searched for product", "none")>>,
              <<c1, c2, c3, c4>> \o d.calls)

\* fs[1]: the fill, fs[2]: the probe of the search button, fs[3]: the
\* click on the button or the key press on the field.
searchProduct(p, productName, fs) ==
  LET pre == <<Entry("info", "Searching for product", "none")>>
      msg == "Failed to search for product"
      c1 == CallRec("fill", "search", <<ELEMENT>>)
      c2 == CallRec("isVisible", "searchBtn", <<SHORT>>)
      a1 == Auto(p, "fill", "search", productName, <<ELEMENT>>, fs[1])
      buttonExists == Probe(a1[2], "searchBtn", SHORT, fs[2])
      c3 == IF buttonExists THEN CallRec("click", "searchBtn", <<ELEMENT>>)
                            ELSE CallRec("press", "search", NoTimeout)
      a3 == IF buttonExists THEN Auto(a1[2], "click", "searchBtn", "", <<ELEMENT>>, fs[3])
                            ELSE Auto(a1[2], "press", "search", "Enter", NoTimeout, fs[3])
      d == delay(a3[2], MEDIUM_DELAY)
  IN IF a1[1].kind # "ok" THEN Failed(a1, pre, msg, <<c1>>)
     ELSE IF a3[1].kind # "ok" THEN Failed(a3, pre, msg, <<c1, c2, c3>>)
     ELSE Res(d.page, Ok("void"), pre \o <<Entry("pass", "Searched for product", "none")>>,
              <<c1, c2, c3>> \o d.calls)

clickProduct(p, productName, f) ==
  LET pre == <<Entry("info", "Clicking product", "none")>>
      calls == <<CallRec("click", "product", <<ELEMENT>>)>>
      a == Auto(p, "click", "product", "", <<ELEMENT>>, f)
      d == delay(a[2], MEDIUM_DELAY)
  IN IF a[1].kind # "ok" THEN Failed(a, pre, "Failed to click product", calls)
     ELSE Res(d.page, Ok("void"), pre \o <<Entry("pass", "Clicked product", "none")>>,
              calls \o d.calls)

\* An add to cart that looks for its button although the product could
\* not be opened.
addProductToCartRegardless(p, productName, fs) ==
  LET pre == <<Entry("info", "Adding product to cart", "none")>>
      r1 == clickProduct(p, productName, fs[1])
      c2 == CallRec("isVisible", "addToCart", <<ELEMENT>>)
  IN Res(r1.page, Ok("void"),
         pre \o r1.log \o <<Entry("warn", "Add to cart button not found", "none")>>,
         r1.calls \o <<c2>>)

\* fs[1]: the click on the product, fs[2]: the probe of the add-to-cart
\* button, fs[3]: the click on it.
addProductToCart(p, productName, fs) ==
  LET pre == <<Entry("info", "Adding product to cart", "none")>>
      msg == "Failed to add product to cart"
      r1 == clickProduct(p, productName, fs[1])
      c2 == CallRec("isVisible", "addToCart", <<ELEMENT>>)
      c3 == CallRec("click", "addToCart", <<ELEMENT>>)
      buttonExists == Probe(r1.page, "addToCart", ELEMENT, fs[2])
      a3 == Auto(r1.page, "click", "addToCart", "", <<ELEMENT>>, fs[3])
      d == delay(a3[2], MEDIUM_DELAY)
  IN IF r1.out.kind = "raise"
       THEN Res(r1.page, Raise(r1.out.err),
                pre \o r1.log \o <<Entry("error", msg, r1.out.err)>>, r1.calls)
     ELSE IF r1.out.kind = "hang" THEN Res(r1.page, Hang, pre \o r1.log, r1.calls)
     ELSE IF ~buttonExists
       THEN Res(r1.page, Ok("void"),
                pre \o r1.log \o <<Entry("warn", "Add to cart button not found", "none")>>,
                r1.calls \o <<c2>>)
     ELSE IF a3[1].kind # "ok" THEN Failed(a3, pre \o r1.log, msg, r1.calls \o <<c2, c3>>)
     ELSE Res(d.page, Ok("void"),
              pre \o r1.log \o <<Entry("pass", "Added product to cart", "none")>>,
              r1.calls \o <<c2, c3>> \o d.calls)

\* A sort that picks the option without opening the sort control.
sortProductsOptionOnly(p, sortOption, fs) ==
  LET pre == <<Entry("info", "Sorting products by", "none")>>
      c3 == CallRec("isVisible", "option", <<SHORT>>)
      c4 == CallRec("click", "option", <<ELEMENT>>)
      a4 == Auto(p, "click", "option", "", <<ELEMENT>>, fs[4])
      d == delay(a4[2], MEDIUM_DELAY)
  IN IF ~Probe(p, "option", SHORT, fs[3])
       THEN Res(p, Ok("void"), pre \o <<Entry("warn", "Sort option not found", "none")>>,
                <<c3>>)
     ELSE IF a4[1].kind # "ok" THEN Failed(a4, pre, "Failed to sort products by", <<c3, c4>>)
     ELSE Res(d.page, Ok("void"), pre \o <<Entry("pass", "Sorted products by", "none")>>,
              <<c3, c4>> \o d.calls)

\* fs[1]: the probe of the sort button, fs[2]: the click on it, fs[3]: the
\* probe of the option, fs[4]: the click on the option.
sortProducts(p, sortOption, fs) ==
  LET pre == <<Entry("info", "Sorting products by", "none")>>
      msg == "Failed to sort products by"
      c1 == CallRec("isVisible", "sortBtn", <<ELEMENT>>)
      c2 == CallRec("click", "sortBtn", <<ELEMENT>>)
      c3 == CallRec("isVisible", "option", <<SHORT>>)
      c4 == CallRec("click", "option", <<ELEMENT>>)
      sortExists == Probe(p, "sortBtn", ELEMENT, fs[1])
      a2 == Auto(p, "click", "sortBtn", "", <<ELEMENT>>, fs[2])
      d2 == delay(a2[2], SHORT_DELAY)
      optionExists == Probe(d2.page, "option", SHORT, fs[3])
      a4 == Auto(d2.page, "click", "option", "", <<ELEMENT>>, fs[4])
      d4 == delay(a4[2], MEDIUM_DELAY)
  IN IF ~sortExists
       THEN Res(p, Ok("void"), pre \o <<Entry("warn", "Sort button not found", "none")>>,
                <<c1>>)
     ELSE IF a2[1].kind # "ok" THEN Failed(a2, pre, msg, <<c1, c2>>)
     ELSE IF ~optionExists
       THEN Res(d2.page, Ok("void"),
                pre \o <<Entry("warn", "Sort option not found", "none")>>,
                <<c1, c2>> \o d2.calls \o <<c3>>)
     ELSE IF a4[1].kind # "ok"
       THEN Failed(a4, pre, msg, <<c1, c2>> \o d2.calls \o <<c3, c4>>)
     ELSE Res(d4.page, Ok("void"), pre \o <<Entry("pass", "Sorted products by", "none")>>,
              <<c1, c2>> \o d2.calls \o <<c3, c4>> \o d4.calls)

\* A filter that clicks its control without looking for it first.
applyFilterUnprobed(p, filterName, filterValue, fs) ==
  LET pre == <<Entry("info", "Applying filter", "none")>>
      calls == <<CallRec("click", "filter", <<ELEMENT>>)>>
      a2 == Auto(p, "click", "filter", "", <<ELEMENT>>, fs[2])
      d == delay(a2[2], MEDIUM_DELAY)
  IN IF a2[1].kind # "ok" THEN Failed(a2, pre, "Failed to apply filter", calls)
     ELSE Res(d.page, Ok("void"), pre \o <<Entry("pass", "Applied filter", "none")>>,
              calls \o d.calls)

\* fs[1]: the probe of the filter, fs[2]: the click on it.
applyFilter(p, filterName, filterValue, fs) ==
  LET pre == <<Entry("info", "Applying filter", "none")>>
      c1 == CallRec("isVisible", "filter", <<ELEMENT>>)
      c2 == CallRec("click", "filter", <<ELEMENT>>)
      filterExists == Probe(p, "filter", ELEMENT, fs[1])
      a2 == Auto(p, "click", "filter", "", <<ELEMENT>>, fs[2])
      d == delay(a2[2], MEDIUM_DELAY)
  IN IF ~filterExists
       THEN Res(p, Ok("void"), pre \o <<Entry("warn", "Filter not found", "none")>>, <<c1>>)
     ELSE IF a2[1].kind # "ok" THEN Failed(a2, pre, "Failed to apply filter", <<c1, c2>>)
     ELSE Res(d.page, Ok("void"), pre \o <<Entry("pass", "Applied filter", "none")>>,
              <<c1, c2>> \o d.calls)

\* fs[1]: the probe of the clear button, fs[2]: the click on it.
clearAllFilters(p, fs) ==
  LET pre == <<Entry("info", "Clearing all filters", "none")>>
      c1 == CallRec("isVisible", "clearBtn", <<ELEMENT>>)
      c2 == CallRec("click", "clearBtn", <<ELEMENT>>)
      buttonExists == Probe(p, "clearBtn", ELEMENT, fs[1])
      a2 == Auto(p, "click", "clearBtn", "", <<ELEMENT>>, fs[2])
      d == delay(a2[2], MEDIUM_DELAY)
  IN IF ~buttonExists
       THEN Res(p, Ok("void"),
                pre \o <<Entry("warn", "Clear filters button not found", "none")>>, <<c1>>)
     ELSE IF a2[1].kind # "ok" THEN Failed(a2, pre, "Failed to clear filters", <<c1, c2>>)
     ELSE Res(d.page, Ok("void"), pre \o <<Entry("pass", "All filters cleared", "none")>>,
              <<c1, c2>> \o d.calls)

(***************************************************************************)
(* A test case using the page objects of the `pages` fixture               *)
(***************************************************************************)
\* Page objects built once, on the first page, and handed to every test.
PagesFixtureShared(h) ==
  BasePageCtor("BasePage", H1).made \o LoginPageCtor(H1).made \o HomePageCtor(H1).made

\* pages: one BasePage, one LoginPage, one HomePage on the test's handle.
PagesFixture(h) ==
  BasePageCtor("BasePage", h).made \o LoginPageCtor(h).made \o HomePageCtor(h).made

HasObj(classes) == \E i \in DOMAIN objs : objs[i].cls \in classes /\ objs[i].page = H1
AnyPage == {"BasePage", "LoginPage", "HomePage"}

Idle == [op |-> "none", args |-> <<>>, f |-> <<>>, out |-> Ok("void"),
         log |-> <<>>, calls |-> <<>>, pre |-> page]

FxIdle == [pc |-> "unused", steps |-> <<>>, formSeen |-> "unset", err |-> "none",
           log |-> <<>>, yielded |-> 0]

\* What a test keeps of a call it has awaited: the call, what it returned
\* and the page it was made on.
Summary(l) == [op |-> l.op, args |-> l.args, out |-> l.out, pre |-> l.pre]
NoPrev == Summary(Idle)

\* No freshPage fixture requested.
FreshIdle == [pc |-> "unused", handlers |-> {}, dialogs |-> <<>>, log |-> <<>>,
              yielded |-> 0, events |-> 0]

\* Nothing but the page objects of one test is in play.
AuxIdle ==
  /\ fresh = FreshIdle
  /\ cases = <<>>
  /\ data = <<>>
  /\ conc = <<>>

\* The test awaits one method of a page object; f is what befalls its calls.
Do(classes, op, args, f, r) ==
  /\ last.out.kind # "hang"
  /\ HasObj(classes)
  /\ page' = r.page
  /\ last' = [op |-> op, args |-> args, f |-> f, out |-> r.out,
              log |-> r.log, calls |-> r.calls, pre |-> page]
  /\ UNCHANGED <<objs, fx, prev, aux>>

\* The application shows or hides an element on its own.
DomChange(els) ==
  /\ last.out.kind # "hang"
  /\ \E el \in els :
       page' = [page EXCEPT !.vis = IF el \in @ THEN @ \ {el} ELSE @ \cup {el}]
  /\ last' = [Idle EXCEPT !.pre = page']
  /\ UNCHANGED <<objs, fx, prev, aux>>

Targets == {"submit"}
FillValues == {CREDENTIALS.email, CREDENTIALS.invalidEmail}
PwdValues == {CREDENTIALS.password, CREDENTIALS.invalidPassword}
ActFaults == {"none"} \cup LibErrors
Kinds == LocatorKinds \cup {"css"}

Goto == \E opt \in Opts, f \in Faults :
  Do(AnyPage, "goto", <<opt>>, <<f>>, goto(page, opt, f))
ClickByRole == \E el \in Targets, opt \in Opts, f \in ActFaults :
  Do(AnyPage, "clickByRole", <<el, opt>>, <<f>>, clickByRole(page, el, opt, f))
ClickByText == \E el \in Targets, opt \in Opts, f \in ActFaults :
  Do(AnyPage, "clickByText", <<el, opt>>, <<f>>, clickByText(page, el, opt, f))
ClickByTestId == \E el \in Targets, opt \in Opts, f \in ActFaults :
  Do(AnyPage, "clickByTestId", <<el, opt>>, <<f>>, clickByTestId(page, el, opt, f))
FillInput == \E v \in FillValues, opt \in Opts, f \in ActFaults :
  Do(AnyPage, "fillInput", <<"email", v, opt>>, <<f>>, fillInput(page, "email", v, opt, f))
FillPassword == \E v \in PwdValues, opt \in Opts, fs \in [1..2 -> ActFaults] :
  Do(AnyPage, "fillPassword", <<"password", v, opt>>, fs,
     fillPassword(page, "password", v, opt, fs))
GetTextByText == \E el \in Targets, f \in ActFaults :
  Do(AnyPage, "getTextByText", <<el>>, <<f>>, getTextByText(page, el, f))
WaitForVisibility == \E k \in Kinds, el \in Targets, t \in Opts, f \in ActFaults :
  Do(AnyPage, "waitForVisibility", <<k, el, t>>, <<f>>, waitForVisibility(page, k, el, t, f))
GoBack == \E f \in Faults : Do(AnyPage, "goBack", <<>>, <<f>>, goBack(page, f))
GoForward == \E f \in Faults : Do(AnyPage, "goForward", <<>>, <<f>>, goForward(page, f))
Refresh == \E f \in Faults : Do(AnyPage, "refresh", <<>>, <<f>>, refresh(page, f))
TakeScreenshot == \E f \in ActFaults :
  Do(AnyPage, "takeScreenshot", <<>>, <<f>>, takeScreenshot(page, f))
EnterEmail == \E v \in FillValues, f \in ActFaults :
  Do({"LoginPage"}, "enterEmail", <<v>>, <<f>>, enterEmail(page, v, f))
EnterPassword == \E v \in PwdValues, f \in ActFaults :
  Do({"LoginPage"}, "enterPassword", <<v>>, <<f>>, enterPassword(page, v, f))
ClickLoginButton == \E f \in ActFaults :
  Do({"LoginPage"}, "clickLoginButton", <<>>, <<f>>, clickLoginButton(page, f))
ClearEmail == \E f \in ActFaults :
  Do({"LoginPage"}, "clearEmail", <<>>, <<f>>, clearEmail(page, f))
ClearPassword == \E f \in ActFaults :
  Do({"LoginPage"}, "clearPassword", <<>>, <<f>>, clearPassword(page, f))
Login == \E e \in FillValues, w \in PwdValues, fs \in [1..3 -> ActFaults] :
  Do({"LoginPage"}, "login", <<e, w>>, fs, login(page, e, w, fs))
FormEls == {"email", "password", "submit"}
\* The order in which isLoginFormDisplayed probes them.
FormProbes == <<"email", "password", "submit">>
FormDomChange == DomChange(FormEls)
PwdDomChange == DomChange({"labelled", "password"})

LoginPageState(vis) ==
  [vis |-> vis, email |-> "", pwd |-> "", auth |-> FALSE,
   alertText |-> Txt(<<"E", "r", "r">>), badge |-> NullTxt, products |-> 0]

Init ==
  /\ page = LoginPageState({"email", "password", "submit"})
  /\ objs = PagesFixture(H1)
  /\ last = Idle
  /\ fx = FxIdle
  /\ prev = NoPrev
  /\ AuxIdle

\* The intolerant operations of BasePage and LoginPage, one call at a time.
Next ==
  \/ Goto \/ ClickByRole \/ ClickByText \/ ClickByTestId
  \/ FillInput \/ GetTextByText \/ WaitForVisibility
  \/ GoBack \/ GoForward \/ Refresh \/ TakeScreenshot
  \/ EnterEmail \/ EnterPassword \/ ClickLoginButton
  \/ ClearEmail \/ ClearPassword
  \/ FormDomChange

Spec == Init /\ [][Next]_vars

\* The login workflow on a login page whose elements come and go.
NextLogin == Login \/ FormDomChange

SpecLogin == Init /\ [][NextLogin]_vars

\* fillPassword on a page with or without a labelled password input.
NextPwd == FillPassword \/ PwdDomChange

SpecPwd == Init /\ [][NextPwd]_vars

(***************************************************************************)
(* The tolerant probes, on a page whose elements come and go               *)
(***************************************************************************)
ProbeEls ==
  {"email", "password", "submit", "alert", "grid", "noResults", "featured", "badge"}
ProbeFaults == {"none", "ErrA"}
ReadFaults == {"none", "ErrA", "stall"}

IsVisible == \E k \in Kinds, f \in ProbeFaults :
  Do(AnyPage, "isVisible", <<k, "grid">>, <<f>>, isVisible(page, k, "grid", f))
IsProductGridDisplayed == \E f \in ProbeFaults :
  Do({"HomePage"}, "isProductGridDisplayed", <<>>, <<f>>, isProductGridDisplayed(page, f))
IsNoResultsDisplayed == \E f \in ProbeFaults :
  Do({"HomePage"}, "isNoResultsDisplayed", <<>>, <<f>>, isNoResultsDisplayed(page, f))
IsFeaturedSectionDisplayed == \E f \in ProbeFaults :
  Do({"HomePage"}, "isFeaturedSectionDisplayed", <<>>, <<f>>,
     isFeaturedSectionDisplayed(page, f))
GetProductCount == \E f \in ProbeFaults :
  Do({"HomePage"}, "getProductCount", <<>>, <<f>>, getProductCount(page, f))
GetCartItemCount == \E fs \in [1..2 -> ReadFaults] :
  Do({"HomePage"}, "getCartItemCount", <<>>, fs, getCartItemCount(page, fs))
GetErrorMessage == \E fs \in [1..2 -> ReadFaults] :
  Do({"LoginPage"}, "getErrorMessage", <<>>, fs, getErrorMessage(page, fs))
IsErrorDisplayed == \E fs \in [1..2 -> ReadFaults] :
  Do({"LoginPage"}, "isErrorDisplayed", <<>>, fs, isErrorDisplayed(page, fs))
IsLoginFormDisplayed == \E fs \in [1..3 -> ProbeFaults] :
  Do({"LoginPage"}, "isLoginFormDisplayed", <<>>, fs, isLoginFormDisplayed(page, fs))
ProbeDomChange == DomChange(ProbeEls)

\* The catalogue gains or loses a product.
CatalogChange ==
  /\ last.out.kind # "hang"
  /\ \E n \in 0..MaxProducts : n # page.products /\ page' = [page EXCEPT !.products = n]
  /\ last' = [Idle EXCEPT !.pre = page']
  /\ UNCHANGED <<objs, fx, prev, aux>>

InitProbe ==
  /\ page = [LoginPageState(FormEls) EXCEPT !.badge = Txt(<<"(", "1", "2", ")">>)]
  /\ objs = PagesFixture(H1)
  /\ last = Idle
  /\ fx = FxIdle
  /\ prev = NoPrev
  /\ AuxIdle

NextProbe ==
  \/ IsVisible \/ IsProductGridDisplayed \/ IsNoResultsDisplayed
  \/ IsFeaturedSectionDisplayed \/ GetProductCount \/ GetCartItemCount
  \/ GetErrorMessage \/ IsErrorDisplayed \/ IsLoginFormDisplayed
  \/ ProbeDomChange \/ CatalogChange

SpecProbe == InitProbe /\ [][NextProbe]_vars

(***************************************************************************)
(* Construction of page objects by a test                                  *)
(***************************************************************************)
CtorHandles == {NULL, H1, H2}

New(cls, h, r) ==
  /\ Len(objs) < MaxObjects
  /\ objs' = objs \o r.made
  /\ last' = [op |-> "new", args |-> <<h, cls>>, f |-> <<>>, out |-> r.out,
              log |-> r.log, calls |-> <<>>, pre |-> page]
  /\ UNCHANGED <<page, fx, prev, aux>>

NewBasePage == \E h \in CtorHandles : New("BasePage", h, BasePageCtor("BasePage", h))
NewLoginPage == \E h \in CtorHandles : New("LoginPage", h, LoginPageCtor(h))
NewHomePage == \E h \in CtorHandles : New("HomePage", h, HomePageCtor(h))

GetUrl == \E i \in DOMAIN objs :
  /\ last' = [op |-> "getUrl", args |-> <<i>>, f |-> <<>>, out |-> getUrl(objs[i]),
              log |-> <<>>, calls |-> <<>>, pre |-> page]
  /\ UNCHANGED <<page, objs, fx, prev, aux>>

InitCtor ==
  /\ page = LoginPageState(FormEls)
  /\ objs = <<>>
  /\ last = Idle
  /\ fx = FxIdle
  /\ prev = NoPrev
  /\ AuxIdle

NextCtor == NewBasePage \/ NewLoginPage \/ NewHomePage \/ GetUrl

SpecCtor == InitCtor /\ [][NextCtor]_vars

(***************************************************************************)
(* The authenticatedPage fixture, one awaited step at a time               *)
(***************************************************************************)
VerificationFailed == "Login verification failed"

Step(name, ok, err) == [step |-> name, ok |-> ok, err |-> err]

\* A fixture that goes on to yield after a failed step.
FxCatchSwallows(f, e) ==
  [f EXCEPT !.pc = "authenticated"]

\* catch (error) { logger.error('Failed to set up authenticated page', error); throw error; }
FxCatch(f, e) ==
  [f EXCEPT !.pc = "failed", !.err = e,
            !.log = Append(@, Entry("error", "Failed to set up authenticated page", e))]

\* A fixture that logs in whatever the form check said.
AfterCheckAlwaysLogsIn(isLoginFormVisible) == "loggingIn"

\* A fixture that skips the login whatever the form check said.
AfterCheckNeverLogsIn(isLoginFormVisible) == "alreadyAuthenticated"

\* if (isLoginFormVisible) { ...login... } else { ...skipping login... }
AfterCheck(isLoginFormVisible) ==
  IF isLoginFormVisible THEN "loggingIn" ELSE "alreadyAuthenticated"

\* The fixture awaits one method of its page objects.
FxAwait(op, f, r) ==
  /\ page' = r.page
  /\ last' = [op |-> op, args |-> <<>>, f |-> f, out |-> r.out,
              log |-> r.log, calls |-> r.calls, pre |-> page]
  /\ UNCHANGED <<objs, prev, aux>>

FxConstruct ==
  /\ fx.pc = "constructing"
  /\ objs' = LoginPageCtor(H1).made \o HomePageCtor(H1).made
  /\ fx' = [fx EXCEPT !.pc = "navigating"]
  /\ UNCHANGED <<page, last, prev, aux>>

FxNavigate ==
  /\ fx.pc = "navigating"
  /\ \E f \in Faults :
       LET r == navigateToLogin(page, f)
           f1 == [fx EXCEPT !.steps = Append(@, Step("navigate", r.out.kind = "ok", r.out.err))]
       IN /\ FxAwait("navigateToLogin", <<f>>, r)
          /\ fx' = IF r.out.kind = "ok" THEN [f1 EXCEPT !.pc = "checking"]
                    ELSE FxCatch(f1, r.out.err)

FxCheck ==
  /\ fx.pc = "checking"
  /\ \E fs \in [1..3 -> ProbeFaults] :
       LET r == isLoginFormDisplayed(page, fs)
       IN /\ FxAwait("isLoginFormDisplayed", fs, r)
          /\ fx' = [fx EXCEPT !.steps = Append(@, Step("check", TRUE, "none")),
                              !.formSeen = IF r.out.val THEN "yes" ELSE "no",
                              !.pc = AfterCheck(r.out.val)]

FxLogin ==
  /\ fx.pc = "loggingIn"
  /\ \E fs \in [1..3 -> ActFaults] :
       LET r == login(page, CREDENTIALS.email, CREDENTIALS.password, fs)
           f1 == [fx EXCEPT !.steps = Append(@, Step("login", r.out.kind = "ok", r.out.err))]
       IN /\ FxAwait("login", fs, r)
          /\ fx' = IF r.out.kind = "ok" THEN [f1 EXCEPT !.pc = "verifying"]
                    ELSE FxCatch(f1, r.out.err)

FxVerify ==
  /\ fx.pc = "verifying"
  /\ \E f \in ProbeFaults :
       LET r == verifyLoginSuccess(page, f)
           loginSuccess == r.out.val
           f1 == [fx EXCEPT !.steps =
                    Append(@, Step("verify", loginSuccess,
                                   IF loginSuccess THEN "none" ELSE VerificationFailed))]
       IN /\ FxAwait("verifyLoginSuccess", <<f>>, r)
          /\ fx' = IF loginSuccess THEN [f1 EXCEPT !.pc = "authenticated"]
                    ELSE FxCatch(f1, VerificationFailed)

\* await use(pageObjects): the test body gets { page, homePage, loginPage }.
FxYield ==
  /\ fx.pc \in {"alreadyAuthenticated", "authenticated"}
  /\ fx' = [fx EXCEPT !.pc = "ready", !.yielded = @ + 1,
                      !.steps = Append(@, Step("yield", TRUE, "none"))]
  /\ UNCHANGED <<page, objs, last, prev, aux>>

\* The test body is over and use() returns.
FxTeardown ==
  /\ fx.pc = "ready"
  /\ fx' = [fx EXCEPT !.pc = "tornDown",
                      !.log = Append(@, Entry("info", "Authenticated page fixture teardown completed", "none"))]
  /\ UNCHANGED <<page, objs, last, prev, aux>>

\* The page changes between two awaited steps of the setup.
FxDomChange ==
  /\ fx.pc \in {"navigating", "checking", "loggingIn", "verifying"}
  /\ \E el \in FormEls :
       page' = [page EXCEPT !.vis = IF el \in @ THEN @ \ {el} ELSE @ \cup {el}]
  /\ UNCHANGED <<objs, last, fx, prev, aux>>

InitFx ==
  /\ page \in {LoginPageState(v) : v \in SUBSET FormEls}
              \cup {[LoginPageState({}) EXCEPT !.auth = TRUE]}
  /\ objs = <<>>
  /\ last = Idle
  /\ fx = [FxIdle EXCEPT !.pc = "constructing"]
  /\ prev = NoPrev
  /\ AuxIdle

NextFx ==
  \/ FxConstruct \/ FxNavigate \/ FxCheck \/ FxLogin \/ FxVerify
  \/ FxYield \/ FxTeardown \/ FxDomChange

SpecFx == InitFx /\ [][NextFx]_vars

(***************************************************************************)
(* Properties                                                              *)
(***************************************************************************)
ErrorEntries(log) == SelectSeq(log, LAMBDA e : e.lvl = "error")
PageCalls(cs) == SelectSeq(cs, LAMBDA c : c.api # "delay")

IntolerantOps ==
  {"goto", "clickByRole", "clickByText", "clickByTestId", "fillInput", "getTextByText",
   "waitForVisibility", "goBack", "goForward", "refresh", "takeScreenshot",
   "enterEmail", "enterPassword", "clickLoginButton", "clearEmail", "clearPassword"}

\* What the automation library answered to the call the last operation made,
\* worked out from the page it started on.
Underlying(l) ==
  LET c == l.calls[1] IN Auto(l.pre, c.api, c.el, "", c.tmo, l.f[1])[1]

ActionOps ==
  {"clickByRole", "clickByText", "clickByTestId", "fillInput", "waitForVisibility",
   "goBack", "goForward", "refresh", "enterEmail", "enterPassword", "clickLoginButton",
   "clearEmail", "clearPassword"}
OpsWithOptions ==
  {"clickByRole", "clickByText", "clickByTestId", "fillInput", "waitForVisibility"}

\* The caller left the timeout to the layer.
DefaultTimeout(l) ==
  l.op \in OpsWithOptions => l.args[Len(l.args)] = NoTimeout

\* C8: an intolerant action method called, with the timeout left to the
\* layer, against a page where its target is absent raises an error to its
\* caller: it has passed a bounded timeout to its automation call and is
\* never left waiting on it.
C8_AbsentTargetRaisesInTime ==
  (/\ last.op \in ActionOps
   /\ last.calls # <<>>
   /\ DefaultTimeout(last)
   /\ last.f = <<"none">>
   /\ last.calls[1].el \in Elements
   /\ last.calls[1].el \notin last.pre.vis) =>
     /\ last.out.kind = "raise"
     /\ last.calls[1].tmo # NoTimeout
     /\ last.calls[1].tmo[1] > 0

LoginSteps ==
  <<CallRec("fill", "email", <<ELEMENT>>), CallRec("fill", "password", <<ELEMENT>>),
    CallRec("click", "submit", <<ELEMENT>>)>>

\* What the library answers to the three calls of a login started on page p:
\* each is made on the page the one before left.
LoginAnswers(p, email, password, fs) ==
  LET a1 == Auto(p, "fill", "email", email, <<ELEMENT>>, fs[1])
      a2 == Auto(a1[2], "fill", "password", password, <<ELEMENT>>, fs[2])
      a3 == Auto(a2[2], "click", "submit", "", <<ELEMENT>>, fs[3])
  IN <<a1, a2, a3>>

FirstFailure(as) ==
  IF \E k \in 1..3 : as[k][1].kind # "ok"
    THEN CHOOSE k \in 1..3 : as[k][1].kind # "ok" /\ \A j \in 1..(k - 1) : as[j][1].kind = "ok"
    ELSE 0

\* C3: login issues fill email, fill password, click submit in that order,
\* each at most once; when step k fails no later step is started, the
\* caller observes the error of step k, and the page is left as the steps
\* before k made it (nothing cleared, nothing retried).
C3_LoginStepsInOrder ==
  last.op = "login" =>
    LET as == LoginAnswers(last.pre, last.args[1], last.args[2], last.f)
        k == FirstFailure(as)
    IN IF k = 0
         THEN /\ last.out.kind = "ok"
              /\ PageCalls(last.calls) = LoginSteps
              /\ page = as[3][2]
         ELSE /\ last.out = as[k][1]
              /\ last.out.kind = "raise"
              /\ PageCalls(last.calls) = SubSeq(LoginSteps, 1, k)
              /\ page = as[k][2]

\* The password step failed after the email field was filled, which stays filled.
C3_Witness ==
  /\ last.op = "login"
  /\ last.f[2] = "ErrA"
  /\ last.f[3] = "ErrB"
  /\ last.out = Raise("ErrA")
  /\ page.email = last.args[1]
  /\ last.pre.email # last.args[1]

TolerantOps ==
  {"isVisible", "isProductGridDisplayed", "isNoResultsDisplayed",
   "isFeaturedSectionDisplayed", "getProductCount", "getCartItemCount",
   "getErrorMessage", "isErrorDisplayed", "isLoginFormDisplayed"}

\* The element the probe looks for was not on the page it was called on.
TargetAbsent(l) ==
  CASE l.op = "isVisible" -> l.args[2] \notin l.pre.vis
    [] l.op = "isProductGridDisplayed" -> "grid" \notin l.pre.vis
    [] l.op = "isNoResultsDisplayed" -> "noResults" \notin l.pre.vis
    [] l.op = "isFeaturedSectionDisplayed" -> "featured" \notin l.pre.vis
    [] l.op = "getProductCount" -> l.pre.products = 0
    [] l.op = "getCartItemCount" -> "badge" \notin l.pre.vis
    [] l.op \in {"getErrorMessage", "isErrorDisplayed"} -> "alert" \notin l.pre.vis
    [] l.op = "isLoginFormDisplayed" -> ~(FormEls \subseteq l.pre.vis)
    [] OTHER -> FALSE

ConservativeDefault(op) ==
  CASE op \in {"getProductCount", "getCartItemCount"} -> Ok(0)
    [] op = "getErrorMessage" -> Ok(NullTxt)
    [] OTHER -> Ok(FALSE)

\* C1: a tolerant probe never raises to its caller, whatever the page and
\* whatever befalls its automation calls, and with its target absent it
\* returns false (0 for the counts, null for getErrorMessage).
C1_ProbesNeverRaise ==
  last.op \in TolerantOps =>
    /\ last.out.kind # "raise"
    /\ TargetAbsent(last) => last.out = ConservativeDefault(last.op)

\* A probe of the form rejected, with the button absent as well.
C1_Witness ==
  /\ last.op = "isLoginFormDisplayed"
  /\ last.f[1] = "ErrA"
  /\ "submit" \notin last.pre.vis
  /\ last.out = Ok(FALSE)

\* C9: isVisible given a locator kind other than role, text or testId
\* fails with an error.
C9_UnknownKindRaises ==
  (last.op = "isVisible" /\ last.args[1] \notin LocatorKinds) => last.out.kind = "raise"

CtorSafe ==
  /\ \A i \in DOMAIN objs : i \in DOMAIN objs' /\ objs'[i] = objs[i]
  /\ (last'.op = "new" /\ last'.args[1] = NULL) =>
        (last'.out.kind = "raise" /\ objs' = objs)

\* C7: constructing a page object without a page handle raises and makes
\* no object; every page object holds a non-null handle, the same one for
\* as long as it exists.
C7_HandleRequiredAndKept ==
  /\ [](\A i \in DOMAIN objs : objs[i].page # NULL)
  /\ [][CtorSafe]_vars

C7_Witness ==
  /\ last.op = "new"
  /\ last.args = <<NULL, "HomePage">>
  /\ last.out.kind = "raise"
  /\ Len(objs) = 1

StepNames(f) == [i \in DOMAIN f.steps |-> f.steps[i].step]
IsPrefix(s, t) == Len(s) <= Len(t) /\ SubSeq(t, 1, Len(s)) = s
Yielding == {"ready", "tornDown"}

\* C4: the fixture navigates first, then checks the form; it runs login and
\* then verifyLoginSuccess exactly when the form was reported displayed and
\* neither when it was not; the bundle is yielded at most once, and only
\* at the end of one of these two paths, with no error raised.
C4_FixturePath ==
  /\ \/ IsPrefix(StepNames(fx), <<"navigate", "check", "login", "verify", "yield">>)
     \/ IsPrefix(StepNames(fx), <<"navigate", "check", "yield">>)
  /\ fx.formSeen = "yes" =>
        (fx.pc = "loggingIn" \/ (Len(fx.steps) >= 3 /\ fx.steps[3].step = "login"))
  /\ fx.formSeen = "no" => \A i \in DOMAIN fx.steps : fx.steps[i].step \notin {"login", "verify"}
  /\ (\E i \in DOMAIN fx.steps : fx.steps[i].step = "login") => fx.formSeen = "yes"
  /\ (\E i \in DOMAIN fx.steps : fx.steps[i].step = "verify") =>
        (fx.steps[3].step = "login" /\ fx.steps[3].ok)
  /\ fx.yielded <= 1
  /\ (fx.yielded = 1) <=> (fx.pc \in Yielding)
  /\ fx.pc \in Yielding =>
        /\ fx.err = "none"
        /\ \A i \in DOMAIN fx.steps : fx.steps[i].ok
        /\ StepNames(fx) = IF fx.formSeen = "yes"
                             THEN <<"navigate", "check", "login", "verify", "yield">>
                             ELSE <<"navigate", "check", "yield">>

C4_Witness ==
  /\ fx.pc = "ready"
  /\ fx.formSeen = "yes"
  /\ StepNames(fx) = <<"navigate", "check", "login", "verify", "yield">>

\* C5: whenever the fixture yields its bundle the page is logged in.
C5_YieldedPageIsLoggedIn ==
  fx.pc = "ready" => page.auth

SeqDo(classes, op, args, f, r) ==
  /\ last.out.kind # "hang"
  /\ HasObj(classes)
  /\ page' = r.page
  /\ last' = [op |-> op, args |-> args, f |-> f, out |-> r.out,
              log |-> r.log, calls |-> r.calls, pre |-> page]
  /\ prev' = Summary(last)
  /\ UNCHANGED <<objs, fx, aux>>

\* What befalls the three steps of a login: nothing, or one of them fails.
StepFaults ==
  {<<"none", "none", "none">>, <<"none", "ErrA", "none">>, <<"none", "none", "ErrB">>}

LoginThen == \E e \in FillValues, w \in PwdValues, fs \in StepFaults :
  SeqDo({"LoginPage"}, "login", <<e, w>>, fs, login(page, e, w, fs))

VerifyLoginSuccess == \E f \in ProbeFaults :
  SeqDo({"LoginPage"}, "verifyLoginSuccess", <<>>, <<f>>, verifyLoginSuccess(page, f))

\* The submit button comes and goes.
ButtonDomChange == DomChange({"submit"})

NextVerify == LoginThen \/ VerifyLoginSuccess \/ ButtonDomChange

SpecVerify == Init /\ [][NextVerify]_vars

ValidCredentials(args) == args = <<CREDENTIALS.email, CREDENTIALS.password>>

\* C11: verifyLoginSuccess awaited right after a login that returned, on a
\* page the application alone has changed in between, returns true when
\* the credentials were the valid ones and false when they were not.
C11_VerifyAfterLogin ==
  (/\ last.op = "verifyLoginSuccess"
   /\ last.f = <<"none">>
   /\ prev.op = "login"
   /\ prev.out.kind = "ok") =>
     last.out = Ok(ValidCredentials(prev.args))

C11_Witness ==
  /\ last.op = "verifyLoginSuccess"
  /\ last.f = <<"none">>
  /\ prev.op = "login"
  /\ prev.out.kind = "ok"
  /\ prev.args = <<CREDENTIALS.email, CREDENTIALS.invalidPassword>>
  /\ last.out = Ok(FALSE)

(***************************************************************************)
(* Repeated invalid logins                                                 *)
(***************************************************************************)
\* if (errorMessage): neither null nor the empty string
Truthy(t) == ~t.isNull /\ Len(t.chars) > 0

\* An attempt that reads the error without running the login.
attemptOnlyOnce(p, email, password, fs) ==
  LET r == getErrorMessage(p, <<fs[4], fs[5]>>)
  IN Res(r.page, r.out,
         <<Entry("info", "Attempting login with invalid credentials", "none")>> \o r.log,
         r.calls)

\* fs[1..3]: the steps of login, fs[4], fs[5]: the probe and the read of
\* getErrorMessage.
attemptInvalidLogin(p, email, password, fs) ==
  LET pre == <<Entry("info", "Attempting login with invalid credentials", "none")>>
      captured(r1, r2) ==
        LET calls == r1.calls \o delay(r1.page, MEDIUM_DELAY).calls \o r2.calls
        IN IF r2.out.kind = "hang"
             THEN Res(r2.page, Hang, pre \o r1.log \o r2.log, calls)
             ELSE Res(r2.page, r2.out,
                      pre \o r1.log \o r2.log
                        \o <<IF Truthy(r2.out.val)
                               THEN Entry("pass", "Invalid login error captured", "none")
                               ELSE Entry("warn",
                                          "No error message displayed for invalid credentials",
                                          "none")>>,
                      calls)
      after(r1) ==
        CASE r1.out.kind = "raise" ->
               Res(r1.page, Raise(r1.out.err),
                   pre \o r1.log
                     \o <<Entry("error", "Failed during invalid login attempt", r1.out.err)>>,
                   r1.calls)
          [] r1.out.kind = "hang" -> Res(r1.page, Hang, pre \o r1.log, r1.calls)
          [] OTHER ->
               CHOOSE r \in {captured(r1, r2) :
                               r2 \in {getErrorMessage(delay(r1.page, MEDIUM_DELAY).page,
                                                       <<fs[4], fs[5]>>)}} : TRUE
  IN CHOOSE r \in {after(r1) : r1 \in {login(p, email, password, <<fs[1], fs[2], fs[3]>>)}} : TRUE

AttemptFaults ==
  {<<"none", "none", "none", "none", "none">>, <<"none", "ErrA", "none", "none", "none">>,
   <<"none", "none", "none", "none", "ErrA">>}

InvalidPairs ==
  {<<e, w>> : e \in FillValues, w \in PwdValues} \ {<<CREDENTIALS.email, CREDENTIALS.password>>}

AttemptInvalidLogin == \E a \in InvalidPairs, fs \in AttemptFaults :
  \E r \in {attemptInvalidLogin(page, a[1], a[2], fs)} :
    SeqDo({"LoginPage"}, "attemptInvalidLogin", a, fs, r)

IsErrorDisplayedThen == \E fs \in {<<"none", "none">>, <<"none", "ErrA">>} :
  SeqDo({"LoginPage"}, "isErrorDisplayed", <<>>, fs, isErrorDisplayed(page, fs))

NextAttempts == AttemptInvalidLogin \/ IsErrorDisplayedThen \/ ButtonDomChange

SpecAttempts == Init /\ [][NextAttempts]_vars

NoFault(l) == \A i \in DOMAIN l.f : l.f[i] = "none"

\* An attempt with invalid credentials that nothing disturbed, begun on a
\* page showing the login form.
CleanAttempt(l) ==
  /\ l.op = "attemptInvalidLogin"
  /\ FormEls \subseteq l.pre.vis

\* C12: every attempt with invalid credentials on the login page, whatever
\* attempts came before it, runs the whole login sequence and returns an
\* error message that is neither null nor empty, and isErrorDisplayed
\* awaited after it returns true.
C12_EveryAttemptYieldsError ==
  /\ (CleanAttempt(last) /\ NoFault(last)) =>
        /\ last.out.kind = "ok"
        /\ Truthy(last.out.val)
        /\ SubSeq(PageCalls(last.calls), 1, 3) = LoginSteps
  /\ (/\ last.op = "isErrorDisplayed" /\ NoFault(last)
      /\ CleanAttempt(prev) /\ prev.out.kind = "ok" /\ Truthy(prev.out.val)) =>
        last.out = Ok(TRUE)

\* The attempt before this one failed half-way, and an earlier error is
\* still showing.
C12_Witness ==
  /\ CleanAttempt(last) /\ NoFault(last)
  /\ "alert" \in last.pre.vis
  /\ prev.op = "attemptInvalidLogin"
  /\ prev.out.kind = "raise"
  /\ last.out.kind = "ok"

(***************************************************************************)
(* Entering and clearing the email                                         *)
(***************************************************************************)
EmailValues == FillValues \cup {""}

EnterEmailThen == \E v \in EmailValues, f \in ActFaults :
  SeqDo({"LoginPage"}, "enterEmail", <<v>>, <<f>>, enterEmail(page, v, f))
ClearEmailThen == \E f \in ActFaults :
  SeqDo({"LoginPage"}, "clearEmail", <<>>, <<f>>, clearEmail(page, f))
\* The email field comes and goes.
EmailDomChange == DomChange({"email"})

NextEmail == EnterEmailThen \/ ClearEmailThen \/ EmailDomChange

SpecEmail == Init /\ [][NextEmail]_vars

\* C13: after enterEmail(x) has returned the email field holds x, and after
\* clearEmail has returned it holds the empty string, whether it held a
\* value or was empty already.
C13_ClearEmailEmpties ==
  /\ (last.op = "enterEmail" /\ last.out.kind = "ok") => page.email = last.args[1]
  /\ (last.op = "clearEmail" /\ last.out.kind = "ok") => page.email = ""

\* clearEmail right after an enterEmail that filled the field.
C13_Witness ==
  /\ last.op = "clearEmail"
  /\ last.out.kind = "ok"
  /\ prev.op = "enterEmail"
  /\ prev.out.kind = "ok"
  /\ last.pre.email = CREDENTIALS.email
  /\ page.email = ""

(***************************************************************************)
(* The product grid and the product count, read one after the other        *)
(***************************************************************************)
IsProductGridDisplayedThen == \E f \in ProbeFaults :
  SeqDo({"HomePage"}, "isProductGridDisplayed", <<>>, <<f>>, isProductGridDisplayed(page, f))
GetProductCountThen == \E f \in ProbeFaults :
  SeqDo({"HomePage"}, "getProductCount", <<>>, <<f>>, getProductCount(page, f))

\* The page re-renders while the test is between two awaited calls: the
\* catalogue gains or loses a product, or the grid is shown or hidden.
Rerender ==
  /\ \/ \E n \in 0..MaxProducts :
          n # page.products /\ page' = [page EXCEPT !.products = n]
     \/ page' = [page EXCEPT !.vis = IF "grid" \in @ THEN @ \ {"grid"} ELSE @ \cup {"grid"}]
  /\ UNCHANGED <<objs, last, fx, prev, aux>>

NextGrid == IsProductGridDisplayedThen \/ GetProductCountThen \/ Rerender

SpecGrid == InitProbe /\ [][NextGrid]_vars

\* C14: getProductCount returns a number that is not negative; and when the
\* call the test awaited before it was an isProductGridDisplayed that
\* reported the grid visible, the count is that of the page as the grid
\* probe saw it.
C14_CountMatchesGridSnapshot ==
  last.op = "getProductCount" =>
    /\ last.out.kind = "ok"
    /\ last.out.val \in Nat
    /\ (NoFault(last) /\ prev.op = "isProductGridDisplayed" /\ prev.out = Ok(TRUE)) =>
          last.out.val = prev.pre.products

(***************************************************************************)
(* The cart badge                                                          *)
(***************************************************************************)
\* Longest badge text, and the characters a badge text is made of.
MaxBadgeLen == 2
BadgeChars == {"0", "1", "7", "a", " ", "-"}

RECURSIVE Strings(_)
Strings(n) ==
  IF n = 0 THEN {<<>>}
  ELSE Strings(n - 1) \cup {Append(cs, c) : cs \in Strings(n - 1), c \in BadgeChars}

BadgeTexts == {Txt(cs) : cs \in Strings(MaxBadgeLen)} \cup {NullTxt}

\* The application rewrites the badge, or shows or hides it.
BadgeChange ==
  /\ last.out.kind # "hang"
  /\ \/ \E t \in BadgeTexts : t # page.badge /\ page' = [page EXCEPT !.badge = t]
     \/ page' = [page EXCEPT !.vis = IF "badge" \in @ THEN @ \ {"badge"} ELSE @ \cup {"badge"}]
  /\ last' = [Idle EXCEPT !.pre = page']
  /\ UNCHANGED <<objs, fx, prev, aux>>

NextBadge == GetCartItemCount \/ BadgeChange

SpecBadge == InitProbe /\ [][NextBadge]_vars

\* The number a string of decimal digits denotes, read from the left.
RECURSIVE DecVal(_, _)
DecVal(cs, acc) ==
  IF cs = <<>> THEN acc ELSE DecVal(Tail(cs), 10 * acc + DigitVal(Head(cs)))

\* What C15 says getCartItemCount returns for the page it was called on.
ExpectedCount(l) ==
  LET t == l.pre.badge
      ds == SelectSeq(t.chars, IsDigit)
  IN IF "badge" \notin l.pre.vis \/ l.f[1] \in LibErrors \/ l.f[2] \in LibErrors THEN 0
     ELSE IF t.isNull \/ ds = <<>> THEN 0
     ELSE DecVal(ds, 0)

\* C15: getCartItemCount never raises, and what it returns is a natural
\* number: 0 when the badge is not visible, a call on it is rejected, or
\* its text is null or has no digit; otherwise the number written by the
\* digits of the badge text, all other characters dropped.
C15_CartCountIsNatural ==
  last.op = "getCartItemCount" =>
    /\ last.out.kind # "raise"
    /\ last.out.kind = "ok" =>
          (last.out.val \in Nat /\ last.out.val = ExpectedCount(last))

\* A badge reading "-7" counts 7.
C15_Witness ==
  /\ last.op = "getCartItemCount"
  /\ NoFault(last)
  /\ "badge" \in last.pre.vis
  /\ last.pre.badge = Txt(<<"-", "7">>)
  /\ last.out = Ok(7)

(***************************************************************************)
(* The freshPage fixture and the events of its page                        *)
(***************************************************************************)
\* Most dialogs the page raises, and most console messages and page errors.
MaxDialogs == 2
MaxEvents == 2

\* A handler that dismisses the dialog.
onDialogDismiss(message) ==
  [log |-> Entry("warn", "Dialog detected", "none"), answer |-> "dismiss"]

\* page.on('dialog', async dialog => { logger.warn(...); await dialog.accept(); })
onDialog(message) ==
  [log |-> Entry("warn", "Dialog detected", "none"), answer |-> "accept"]

\* page.on('console', msg => { if (msg.type() === 'error') logger.warn(...) })
onConsole(type) ==
  IF type = "error" THEN <<Entry("warn", "Console error", "none")>> ELSE <<>>

\* page.on('pageerror', error => { logger.error('Page error:', error) })
onPageError(error) == <<Entry("error", "Page error:", error)>>

\* The fixture up to its await: the log line, the BasePage, the three
\* handlers, and use(basePage). Nothing else can run in between.
FreshSetup ==
  /\ fresh.pc = "constructing"
  /\ BasePageCtor("BasePage", H1).out.kind = "ok"
  /\ objs' = BasePageCtor("BasePage", H1).made
  /\ fresh' = [fresh EXCEPT !.pc = "ready",
                            !.log = Append(@, Entry("info", "Setting up fresh page fixture", "none")),
                            !.handlers = {"dialog", "console", "pageerror"},
                            !.yielded = @ + 1]
  /\ UNCHANGED <<page, last, fx, prev, cases, data, conc>>

\* The page raises a modal dialog while the test body runs. With no
\* listener for it the automation library dismisses it by itself.
DialogOpens ==
  /\ fresh.pc = "ready"
  /\ Len(fresh.dialogs) < MaxDialogs
  /\ fresh' = [fresh EXCEPT !.dialogs =
                 Append(@, [state |-> IF "dialog" \in fresh.handlers THEN "open" ELSE "dismissed",
                            answer |-> "none"])]
  /\ UNCHANGED <<page, objs, last, fx, prev, cases, data, conc>>

\* The dialog listener runs for a dialog: it logs and sends its answer.
DialogHandler ==
  /\ \E i \in DOMAIN fresh.dialogs :
       /\ fresh.dialogs[i].state = "open"
       /\ fresh' = [fresh EXCEPT !.dialogs[i] = [state |-> "answering",
                                                 answer |-> onDialog("message").answer],
                                 !.log = Append(@, onDialog("message").log)]
  /\ UNCHANGED <<page, objs, last, fx, prev, cases, data, conc>>

\* The browser acts on the answer and the awaited call settles.
AnswerSettles ==
  /\ \E i \in DOMAIN fresh.dialogs :
       /\ fresh.dialogs[i].state = "answering"
       /\ fresh' = [fresh EXCEPT !.dialogs[i].state =
                      IF fresh.dialogs[i].answer = "accept" THEN "accepted" ELSE "dismissed"]
  /\ UNCHANGED <<page, objs, last, fx, prev, cases, data, conc>>

ConsoleMessage ==
  /\ fresh.pc = "ready"
  /\ "console" \in fresh.handlers
  /\ fresh.events < MaxEvents
  /\ \E type \in {"log", "error"} :
       fresh' = [fresh EXCEPT !.events = @ + 1, !.log = @ \o onConsole(type)]
  /\ UNCHANGED <<page, objs, last, fx, prev, cases, data, conc>>

PageError ==
  /\ fresh.pc = "ready"
  /\ "pageerror" \in fresh.handlers
  /\ fresh.events < MaxEvents
  /\ fresh' = [fresh EXCEPT !.events = @ + 1, !.log = @ \o onPageError("ErrA")]
  /\ UNCHANGED <<page, objs, last, fx, prev, cases, data, conc>>

\* The test body is over: use() returns and the fixture logs its last line.
FreshTeardown ==
  /\ fresh.pc = "ready"
  /\ fresh' = [fresh EXCEPT !.pc = "tornDown",
                            !.log = Append(@, Entry("info", "Fresh page fixture teardown completed",
                                                    "none"))]
  /\ UNCHANGED <<page, objs, last, fx, prev, cases, data, conc>>

InitFresh ==
  /\ page = LoginPageState(FormEls)
  /\ objs = <<>>
  /\ last = Idle
  /\ fx = FxIdle
  /\ prev = NoPrev
  /\ fresh = [FreshIdle EXCEPT !.pc = "constructing"]
  /\ cases = <<>>
  /\ data = <<>>
  /\ conc = <<>>

NextFresh ==
  \/ FreshSetup \/ DialogOpens \/ DialogHandler \/ AnswerSettles
  \/ ConsoleMessage \/ PageError \/ FreshTeardown

\* A listener registered on the page is run for every event emitted, and
\* the browser answers every call sent to it.
SpecFresh ==
  InitFresh /\ [][NextFresh]_vars /\ WF_vars(DialogHandler) /\ WF_vars(AnswerSettles)

FreshStep ==
  /\ fresh'.pc # fresh.pc =>
        /\ <<fresh.pc, fresh'.pc>> \in {<<"constructing", "ready">>, <<"ready", "tornDown">>}
        /\ page' = page
  /\ fresh'.yielded # fresh.yielded =>
        (fresh'.yielded = 1 /\ fresh'.handlers = {"dialog", "console", "pageerror"})

\* C16: the fixture goes constructing, ready, torn down, yielding once with
\* the three handlers in place and leaving the page as it is; no dialog is
\* ever dismissed, and every dialog raised is in the end accepted.
C16_FreshPageAcceptsDialogs ==
  /\ [][FreshStep]_vars
  /\ [](\A i \in DOMAIN fresh.dialogs : fresh.dialogs[i].state # "dismissed")
  /\ \A i \in 1..MaxDialogs :
       [](i \in DOMAIN fresh.dialogs =>
            <>(i \in DOMAIN fresh.dialogs /\ fresh.dialogs[i].state = "accepted"))

\* Both dialogs raised during the test body have been accepted and the
\* fixture is torn down.
C16_Witness ==
  /\ fresh.pc = "tornDown"
  /\ Len(fresh.dialogs) = 2
  /\ \A i \in DOMAIN fresh.dialogs : fresh.dialogs[i].state = "accepted"

(***************************************************************************)
(* Test cases of one run, each with the page the runner made for it        *)
(***************************************************************************)
\* Most test cases in a run.
MaxCases == 2
\* The pages the runner hands out, one per test case.
PageHandles == <<H1, H2, "page3", "page4", "page5">>

FixtureNames == {"freshPage", "authenticatedPage", "pages"}

\* The page objects a fixture constructs for the page it is given.
FixtureObjects(name, h) ==
  CASE name = "freshPage" -> BasePageCtor("BasePage", h).made
    [] name = "authenticatedPage" -> LoginPageCtor(h).made \o HomePageCtor(h).made
    [] name = "pages" -> PagesFixture(h)

\* The runner starts a test case on a page of its own; the cases started
\* earlier may still be running.
StartCase ==
  /\ Len(cases) < MaxCases
  /\ cases' = Append(cases, [handle |-> PageHandles[Len(cases) + 1], pc |-> "running",
                             fixtures |-> {}, objs |-> <<>>])
  /\ UNCHANGED <<page, objs, last, fx, prev, fresh, data, conc>>

\* A running test case sets up a fixture it requests, once.
RequestFixture ==
  /\ \E t \in DOMAIN cases, name \in FixtureNames :
       /\ cases[t].pc = "running"
       /\ name \notin cases[t].fixtures
       /\ cases' = [cases EXCEPT ![t].fixtures = @ \cup {name},
                                 ![t].objs = @ \o FixtureObjects(name, cases[t].handle)]
  /\ UNCHANGED <<page, objs, last, fx, prev, fresh, data, conc>>

EndCase ==
  /\ \E t \in DOMAIN cases :
       /\ cases[t].pc = "running"
       /\ cases' = [cases EXCEPT ![t].pc = "done"]
  /\ UNCHANGED <<page, objs, last, fx, prev, fresh, data, conc>>

InitCases ==
  /\ page = LoginPageState(FormEls)
  /\ objs = <<>>
  /\ last = Idle
  /\ fx = FxIdle
  /\ prev = NoPrev
  /\ AuxIdle

NextCases == StartCase \/ RequestFixture \/ EndCase

SpecCases == InitCases /\ [][NextCases]_vars

\* C17: every page object a fixture made for a test case wraps the page of
\* that test case, and of no other, also while several cases are running.
C17_ObjectsWrapOwnHandle ==
  \A t \in DOMAIN cases : \A i \in DOMAIN cases[t].objs :
    /\ cases[t].objs[i].page = cases[t].handle
    /\ \A u \in DOMAIN cases : u # t => cases[t].objs[i].page # cases[u].handle

\* Two test cases running at once, each holding the objects of `pages`.
C17_Witness ==
  /\ Len(cases) >= 2
  /\ cases[1].pc = "running" /\ cases[2].pc = "running"
  /\ "pages" \in cases[1].fixtures /\ "pages" \in cases[2].fixtures
  /\ Len(cases[2].objs) >= 3

(***************************************************************************)
(* The testData fixture and the configuration object it is built from      *)
(***************************************************************************)
\* Most test cases that request testData, and most products a test adds.
MaxBundles == 3
MaxPushed == 1

\* The config module as loaded, once, by the worker that runs the tests.
Config ==
  [CREDENTIALS |-> CREDENTIALS,
   TIMEOUTS |-> [SHORT |-> SHORT, NAVIGATION |-> NAVIGATION, ELEMENT |-> ELEMENT],
   DELAYS |-> [MEDIUM_DELAY |-> MEDIUM_DELAY],
   validProducts |-> <<"shirt", "jacket", "pants">>,
   invalidSearchQuery |-> "nonexistentproduct12345"]

\* The object literal of the fixture. users and products are new objects
\* holding copies of strings; timeouts, delays and productList are the
\* objects of config themselves, held by reference.
testData(cfg) ==
  [users |-> [validUser |-> [email |-> cfg.CREDENTIALS.email,
                             password |-> cfg.CREDENTIALS.password],
              invalidUser |-> [email |-> cfg.CREDENTIALS.invalidEmail,
                               password |-> cfg.CREDENTIALS.invalidPassword]],
   products |-> [validSearch |-> cfg.validProducts[1],
                 invalidSearch |-> cfg.invalidSearchQuery,
                 productList |-> "config.TEST_DATA.validProducts"],
   timeouts |-> "config.TIMEOUTS",
   delays |-> "config.DELAYS"]

\* What a test reads through its bundle, references followed.
Deref(b, cfg) ==
  [users |-> b.users,
   validSearch |-> b.products.validSearch,
   invalidSearch |-> b.products.invalidSearch,
   productList |-> cfg.validProducts,
   timeouts |-> cfg.TIMEOUTS,
   delays |-> cfg.DELAYS]

\* testData: async ({}, use) => { const testData = {...}; await use(testData); }
\* `given` keeps what the test case found in its bundle when it got it.
MakeTestData ==
  /\ Len(data.bundles) < MaxBundles
  /\ LET b == testData(data.config)
     IN data' = [data EXCEPT !.bundles =
                   Append(@, [bundle |-> b, given |-> Deref(b, data.config)])]
  /\ UNCHANGED <<page, objs, last, fx, prev, fresh, cases, conc>>

\* A test assigns through its bundle: testData.timeouts.SHORT = 1
SetTimeout ==
  /\ \E t \in DOMAIN data.bundles :
       /\ data.config.TIMEOUTS.SHORT # 1
       /\ data' = [data EXCEPT !.config.TIMEOUTS.SHORT = 1]
  /\ UNCHANGED <<page, objs, last, fx, prev, fresh, cases, conc>>

\* testData.delays.MEDIUM_DELAY = 0
SetDelay ==
  /\ \E t \in DOMAIN data.bundles :
       /\ data.config.DELAYS.MEDIUM_DELAY # 0
       /\ data' = [data EXCEPT !.config.DELAYS.MEDIUM_DELAY = 0]
  /\ UNCHANGED <<page, objs, last, fx, prev, fresh, cases, conc>>

\* testData.products.productList.push('hat')
PushProduct ==
  /\ \E t \in DOMAIN data.bundles :
       /\ Len(data.config.validProducts) < 3 + MaxPushed
       /\ data' = [data EXCEPT !.config.validProducts = Append(@, "hat")]
  /\ UNCHANGED <<page, objs, last, fx, prev, fresh, cases, conc>>

\* testData.users.validUser.email = 'other@example.com'
SetUserEmail ==
  /\ \E t \in DOMAIN data.bundles :
       /\ data.bundles[t].bundle.users.validUser.email # "other@example.com"
       /\ data' = [data EXCEPT
                     !.bundles[t].bundle.users.validUser.email = "other@example.com"]
  /\ UNCHANGED <<page, objs, last, fx, prev, fresh, cases, conc>>

InitData ==
  /\ page = LoginPageState(FormEls)
  /\ objs = <<>>
  /\ last = Idle
  /\ fx = FxIdle
  /\ prev = NoPrev
  /\ fresh = FreshIdle
  /\ cases = <<>>
  /\ data = [config |-> Config, bundles |-> <<>>]
  /\ conc = <<>>

NextData == MakeTestData \/ SetTimeout \/ SetDelay \/ PushProduct \/ SetUserEmail

SpecData == InitData /\ [][NextData]_vars

\* C18: every test case is given a bundle that reads as one built from the
\* configuration as written, and the configuration stays as written,
\* whatever earlier test cases did through their bundles.
C18_TestDataIsFresh ==
  /\ data.config = Config
  /\ \A t \in DOMAIN data.bundles :
       data.bundles[t].given = Deref(testData(Config), Config)

(***************************************************************************)
(* What the BasePage methods write to the log                              *)
(***************************************************************************)
\* An input the methods act on comes and goes.
LogDomChange == DomChange({"labelled", "submit"})

NextLog ==
  \/ Goto \/ ClickByRole \/ ClickByText \/ ClickByTestId
  \/ FillInput \/ FillPassword \/ WaitForVisibility
  \/ GoBack \/ GoForward \/ Refresh \/ TakeScreenshot
  \/ LogDomChange

SpecLog == Init /\ [][NextLog]_vars

LoggedOps ==
  {"goto", "clickByRole", "clickByText", "clickByTestId", "fillInput", "fillPassword",
   "waitForVisibility", "goBack", "goForward", "refresh", "takeScreenshot"}

\* The method has returned or raised.
Settled(l) == l.out.kind \in {"ok", "raise"}

\* The entry e reports the outcome the caller of l saw: success, or the
\* error with its cause. takeScreenshot reports success at level info.
OutcomeEntry(l, e) ==
  IF l.out.kind = "ok"
    THEN e.lvl = "pass" \/ (l.op = "takeScreenshot" /\ e.lvl = "info")
    ELSE e.lvl = "error" /\ e.cause = l.out.err

MaxOps == 2

\* The automation calls of login, in the order its awaits reach them:
\* enterEmail, enterPassword, clickLoginButton.
LoginCall(k) == [api |-> LoginSteps[k].api, el |-> LoginSteps[k].el, tmo |-> LoginSteps[k].tmo]
LoginValue(args, k) == IF k = 1 THEN args[1] ELSE IF k = 2 THEN args[2] ELSE ""

\* A login whose promise resolves as soon as its first step has settled,
\* while its click is still to be sent.
loginResolvesEarly(pc) == pc > 1

\* The promise login returned is settled once its third step has settled
\* (or a step has rejected, which sets pc past the steps).
loginResolved(pc) == pc > 3

ConcIdle == [ops |-> <<>>, wire |-> <<>>, blocked |-> 0]

\* The test calls loginPage.login(...): the call runs up to its first
\* await, which sends the first automation call. With `awaited` the test
\* goes no further until the promise settles.
IssueLogin ==
  /\ Len(conc.ops) < MaxOps
  /\ IF conc.blocked = 0 THEN TRUE ELSE conc.ops[conc.blocked].resolved
  /\ \E args \in {<<CREDENTIALS.email, CREDENTIALS.password>>,
                  <<CREDENTIALS.invalidEmail, CREDENTIALS.invalidPassword>>},
        awaited \in BOOLEAN :
       LET id == Len(conc.ops) + 1
       IN conc' = [ops |-> Append(conc.ops, [args |-> args, pc |-> 1, resolved |-> FALSE,
                                             awaited |-> awaited]),
                   wire |-> Append(conc.wire, [by |-> id, call |-> LoginCall(1)]),
                   blocked |-> IF awaited THEN id ELSE 0]
  /\ UNCHANGED <<page, objs, last, fx, prev, fresh, cases, data>>

\* The call a login is suspended on settles and the login runs on to its
\* next await, sending the next call, or to its end.
Settle ==
  /\ \E i \in DOMAIN conc.ops, f \in {"none", "ErrA"} :
       LET o == conc.ops[i]
           a == Auto(page, LoginCall(o.pc).api, LoginCall(o.pc).el,
                     LoginValue(o.args, o.pc), LoginCall(o.pc).tmo, f)
           pc == IF a[1].kind = "ok" THEN o.pc + 1 ELSE 4
       IN /\ o.pc <= 3
          /\ page' = a[2]
          /\ conc' = [conc EXCEPT
                        !.ops[i].pc = pc,
                        !.ops[i].resolved = loginResolved(pc),
                        !.wire = IF pc <= 3 THEN Append(@, [by |-> i, call |-> LoginCall(pc)])
                                 ELSE @]
  /\ UNCHANGED <<objs, last, fx, prev, fresh, cases, data>>

InitConc ==
  /\ page = LoginPageState(FormEls)
  /\ objs = PagesFixture(H1)
  /\ last = Idle
  /\ fx = FxIdle
  /\ prev = NoPrev
  /\ fresh = FreshIdle
  /\ cases = <<>>
  /\ data = <<>>
  /\ conc = ConcIdle

NextConc == IssueLogin \/ Settle

SpecConc == InitConc /\ [][NextConc]_vars

\* C20: the automation calls of an operation issued earlier all come
\* before those of an operation issued later on the same page object,
\* whether or not the caller awaited the earlier one.
C20_CallsInIssueOrder ==
  \A m, n \in DOMAIN conc.wire :
    m < n => conc.wire[m].by <= conc.wire[n].by

\* C20 as amended: the automation calls of an operation the caller awaited
\* all come before those of every operation issued after it.
C20_AwaitedCallsInOrder ==
  \A m, n \in DOMAIN conc.wire :
    (m < n /\ conc.wire[m].by > conc.wire[n].by) => ~conc.ops[conc.wire[n].by].awaited

\* Two awaited logins, the six calls in order.
C20_Witness ==
  /\ Len(conc.ops) = 2
  /\ conc.ops[1].awaited /\ conc.ops[2].awaited
  /\ [i \in DOMAIN conc.wire |-> conc.wire[i].by] = <<1, 1, 1, 2, 2, 2>>

(***************************************************************************)
(* The error check against the message it reads                            *)
(***************************************************************************)
\* What the alert may hold: no text, the empty string, blanks, a message.
AlertTexts ==
  {NullTxt, Txt(<<>>), Txt(<<" ">>), Txt(<<" ", " ">>),
   Txt(<<"E", "r", "r">>), Txt(<<" ", "E", " ">>)}

\* The application rewrites the text of its alert.
AlertChange ==
  /\ last.out.kind # "hang"
  /\ \E t \in AlertTexts : t # page.alertText /\ page' = [page EXCEPT !.alertText = t]
  /\ last' = [Idle EXCEPT !.pre = page']
  /\ UNCHANGED <<objs, fx, prev, aux>>

AlertDomChange == DomChange({"alert"})

NextAlert == GetErrorMessage \/ IsErrorDisplayed \/ AlertChange \/ AlertDomChange

SpecAlert == InitProbe /\ [][NextAlert]_vars

\* What getErrorMessage returns on the page and under the faults of call l.
MessageOf(l) == getErrorMessage(l.pre, l.f).out.val

\* C21: isErrorDisplayed never raises and returns true exactly when
\* getErrorMessage returns a non-empty string, whether that result is
\* null, the empty string, a string of blanks or any other string.
C21_TrueIffNonEmptyMessage ==
  (last.op = "isErrorDisplayed" /\ last.out.kind # "hang") =>
    /\ last.out.kind = "ok"
    /\ last.out.val = (~MessageOf(last).isNull /\ Len(MessageOf(last).chars) > 0)

\* C21 as amended: isErrorDisplayed never raises and returns true exactly
\* when getErrorMessage returns a string holding a character that is not
\* white space.
C21_TrueIffNonBlankMessage ==
  (last.op = "isErrorDisplayed" /\ last.out.kind # "hang") =>
    /\ last.out.kind = "ok"
    /\ last.out.val = (/\ ~MessageOf(last).isNull
                       /\ \E i \in DOMAIN MessageOf(last).chars :
                            MessageOf(last).chars[i] # " ")

\* The alert shows two blanks: the message is read and no error is reported.
C21_Witness ==
  /\ last.op = "isErrorDisplayed"
  /\ last.f = <<"none", "none">>
  /\ "alert" \in last.pre.vis
  /\ last.pre.alertText = Txt(<<" ", " ">>)
  /\ last.out = Ok(FALSE)

(***************************************************************************)
(* The login form check                                                    *)
(***************************************************************************)
\* The k-th probe of call l reported its element visible.
Seen(l, k) == FormProbes[k] \in l.pre.vis /\ l.f[k] \notin LibErrors

\* C22: isLoginFormDisplayed never raises, makes its three probes whatever
\* the earlier ones did, and returns true exactly when the email field, the
\* password field and the submit control were each reported visible, a
\* probe that raises counting as not visible.
C22_FormDisplayedIffAllVisible ==
  last.op = "isLoginFormDisplayed" =>
    /\ last.out = Ok(\A k \in 1..3 : Seen(last, k))
    /\ [k \in DOMAIN last.calls |-> last.calls[k].el] = FormProbes
    /\ \A k \in DOMAIN last.calls : last.calls[k].api = "isVisible"

\* The whole form is on the page and the probe of the email field rejects:
\* the other two probes are made and the answer is false.
C22_Witness ==
  /\ last.op = "isLoginFormDisplayed"
  /\ FormEls \subseteq last.pre.vis
  /\ last.f = <<"ErrA", "none", "none">>
  /\ Len(last.calls) = 3
  /\ last.out = Ok(FALSE)

(***************************************************************************)
(* Searching the catalogue                                                 *)
(***************************************************************************)
HomePageState(vis) == [LoginPageState(vis) EXCEPT !.auth = TRUE]

\* A home page the test works on, with the controls in ctl on show.
InitHome(ctl) ==
  /\ page = HomePageState(ctl)
  /\ objs = PagesFixture(H1)
  /\ last = Idle
  /\ fx = FxIdle
  /\ prev = NoPrev
  /\ AuxIdle

SearchTerms == {"shirt", "zzz-nonexistent-zzz"}
\* What may befall an action on an element: nothing, a rejection, or the
\* element never becoming actionable.
StepOutcomes == {"none", "ErrA", "stall"}

SearchProduct == \E t \in SearchTerms :
  \E f1 \in StepOutcomes, f2 \in ProbeFaults, f3 \in StepOutcomes :
    \E r \in {searchProduct(page, t, <<f1, f2, f3>>)} :
      Do({"HomePage"}, "searchProduct", <<t>>, <<f1, f2, f3>>, r)

SearchDomChange == DomChange({"search", "searchBtn"})

NextSearch == SearchProduct \/ SearchDomChange

SpecSearch == InitHome({"search", "searchBtn"}) /\ [][NextSearch]_vars

\* The positions in a sequence of calls of those made through api.
CallsOf(cs, apis) == {k \in DOMAIN cs : cs[k].api \in apis}

\* The k-th probe of call l, made on element el, reported it visible.
ProbedVisible(l, k, el) == el \in l.pre.vis /\ l.f[k] \notin LibErrors

\* The error an action under fault f rejects with.
Rejection(f) == IF f \in LibErrors THEN f ELSE TimeoutError

\* C23: searchProduct fills the search field first and then submits once,
\* by a click on the search control when it was probed visible and by
\* Enter on the field otherwise; the medium delay comes only after a
\* submit that succeeded, and a failing fill, click or key press
\* propagates with no submit or delay after it.
C23_SearchSubmitsOnce ==
  last.op = "searchProduct" =>
    LET cs == last.calls
        submits == CallsOf(cs, {"click", "press"})
        delays == CallsOf(cs, {"delay"})
        fillFails == last.f[1] # "none" \/ "search" \notin last.pre.vis
    IN /\ cs[1] = CallRec("fill", "search", <<ELEMENT>>)
       /\ Cardinality(submits) <= 1
       /\ \A k \in submits :
            /\ k = 3
            /\ cs[2] = CallRec("isVisible", "searchBtn", <<SHORT>>)
            /\ cs[3] = IF ProbedVisible(last, 2, "searchBtn")
                         THEN CallRec("click", "searchBtn", <<ELEMENT>>)
                         ELSE CallRec("press", "search", NoTimeout)
       /\ fillFails => cs = <<cs[1]>> /\ last.out = Raise(Rejection(last.f[1]))
       /\ (~fillFails /\ last.f[3] # "none") =>
            /\ Len(cs) = 3 /\ delays = {}
            /\ last.out \in {Raise(Rejection(last.f[3])), Hang}
            /\ last.out = Hang => cs[3].api = "press" /\ last.f[3] = "stall"
       /\ last.out.kind = "ok" <=> (~fillFails /\ last.f[3] = "none")
       /\ last.out.kind = "ok" =>
            /\ submits = {3} /\ delays = {4} /\ Len(cs) = 4
            /\ cs[4].tmo = <<MEDIUM_DELAY>>

\* No search control on the page: the search is submitted by Enter.
C23_Witness ==
  /\ last.op = "searchProduct"
  /\ "searchBtn" \notin last.pre.vis
  /\ last.out = Ok("void")
  /\ [k \in DOMAIN last.calls |-> last.calls[k].api] = <<"fill", "isVisible", "press", "delay">>

(***************************************************************************)
(* Adding a product to the cart                                            *)
(***************************************************************************)
ProductNames == {"shirt", "hat"}

ClickProduct == \E n \in ProductNames, f \in StepOutcomes :
  Do({"HomePage"}, "clickProduct", <<n>>, <<f>>, clickProduct(page, n, f))

AddProductToCart == \E n \in ProductNames :
  \E f1 \in StepOutcomes, f2 \in ProbeFaults, f3 \in StepOutcomes :
    \E r \in {addProductToCart(page, n, <<f1, f2, f3>>)} :
      Do({"HomePage"}, "addProductToCart", <<n>>, <<f1, f2, f3>>, r)

CartDomChange == DomChange({"product", "addToCart"})

NextCart == ClickProduct \/ AddProductToCart \/ CartDomChange

SpecCart == InitHome({"product", "addToCart"}) /\ [][NextCart]_vars

\* The calls of cs made on element el.
CallsOn(cs, el) == {k \in DOMAIN cs : cs[k].el = el}

SortOptions == {"price"}
FilterControls == {"sortBtn", "option", "filter", "clearBtn"}

SortProducts == \E o \in SortOptions :
  \E f1 \in ProbeFaults, f2 \in StepOutcomes, f3 \in ProbeFaults, f4 \in StepOutcomes :
    \E r \in {sortProducts(page, o, <<f1, f2, f3, f4>>)} :
      Do({"HomePage"}, "sortProducts", <<o>>, <<f1, f2, f3, f4>>, r)

ApplyFilter == \E f1 \in ProbeFaults, f2 \in StepOutcomes :
  \E r \in {applyFilter(page, "category", "shoes", <<f1, f2>>)} :
    Do({"HomePage"}, "applyFilter", <<"category", "shoes">>, <<f1, f2>>, r)

ClearAllFilters == \E f1 \in ProbeFaults, f2 \in StepOutcomes :
  \E r \in {clearAllFilters(page, <<f1, f2>>)} :
    Do({"HomePage"}, "clearAllFilters", <<>>, <<f1, f2>>, r)

FilterDomChange == DomChange(FilterControls)

NextFilters == SortProducts \/ ApplyFilter \/ ClearAllFilters \/ FilterDomChange

SpecFilters == InitHome(FilterControls) /\ [][NextFilters]_vars

\* The control each best-effort operation looks for first.
ControlOf(op) ==
  IF op = "sortProducts" THEN "sortBtn"
  ELSE IF op = "applyFilter" THEN "filter" ELSE "clearBtn"

BestEffortOps == {"sortProducts", "applyFilter", "clearAllFilters"}

IsClick(c) == c.api = "click"

\* The elements call l clicked, in order.
Clicked(l) ==
  LET cs == SelectSeq(l.calls, IsClick) IN [k \in DOMAIN cs |-> cs[k].el]

\* C29: a sortProducts that returns normally has made no click (sort
\* control not visible), or one click on the sort control (option not
\* visible), or a click on the control and then one on the option; the
\* option is never clicked unless the control was clicked before it in
\* the same call.
C29_SortClickSequences ==
  last.op = "sortProducts" =>
    /\ last.out.kind = "ok" =>
         Clicked(last) = IF ~ProbedVisible(last, 1, "sortBtn") THEN <<>>
                         ELSE IF ~ProbedVisible(last, 3, "option") THEN <<"sortBtn">>
                         ELSE <<"sortBtn", "option">>
    /\ \A k \in DOMAIN Clicked(last) :
         Clicked(last)[k] = "option" => \E j \in 1..(k - 1) : Clicked(last)[j] = "sortBtn"

\* The sort control is there and the option is not: the control is
\* clicked, nothing is selected and the call returns normally.
C29_Witness ==
  /\ last.op = "sortProducts"
  /\ "sortBtn" \in last.pre.vis /\ "option" \notin last.pre.vis
  /\ last.out = Ok("void")
  /\ Clicked(last) = <<"sortBtn">>
  /\ last.log[Len(last.log)] = Entry("warn", "Sort option not found", "none")

(***************************************************************************)
(* What a login that returned tells its caller                             *)
(***************************************************************************)
\* attemptInvalidLogin with any pair of credentials: nothing in it looks
\* at what it is given.
AttemptLogin == \E e \in FillValues, w \in PwdValues :
  \E fs \in AttemptFaults \cup {<<"ErrB", "none", "none", "none", "none">>,
                                <<"none", "none", "ErrB", "none", "none">>} :
    \E r \in {attemptInvalidLogin(page, e, w, fs)} :
      Do({"LoginPage"}, "attemptInvalidLogin", <<e, w>>, fs, r)

NextAuth == Login \/ AttemptLogin \/ FormDomChange

SpecAuth == Init /\ [][NextAuth]_vars

LoginOps == {"login", "attemptInvalidLogin"}
LoginDone == Entry("pass", "Login completed successfully", "none")

\* The index of the step of call l's login that failed, 0 when none did.
FailedStep(l) ==
  FirstFailure(LoginAnswers(l.pre, l.args[1], l.args[2], <<l.f[1], l.f[2], l.f[3]>>))

C27_VerifyTrueUnlessSeen ==
  last.op = "verifyLoginSuccess" =>
    /\ last.out.kind = "ok"
    /\ last.out.val \in BOOLEAN
    /\ last.out.val = FALSE <=> ("email" \in last.pre.vis /\ last.f[1] \notin LibErrors)

\* The login form is still on the page and the probe rejects: the check
\* reports a successful login.
C27_Witness ==
  /\ last.op = "verifyLoginSuccess"
  /\ FormEls \subseteq last.pre.vis
  /\ ~last.pre.auth
  /\ last.f = <<"ErrA">>
  /\ last.out = Ok(TRUE)

(***************************************************************************)
(* When the authenticatedPage fixture logs in                              *)
(***************************************************************************)
HasStep(f, name) == \E i \in DOMAIN f.steps : f.steps[i].step = name

\* C28: the authenticatedPage fixture calls login only when its check saw
\* the email field, the password field and the submit control all three
\* visible; on any other observation (one of them not visible, a probe
\* raising) it goes on to yield without logging in, and so may yield while
\* the email field is still on the page.
C28_LoginOnlyWhenFormSeen ==
  /\ (last.op = "isLoginFormDisplayed" /\ fx.pc # "constructing") =>
       /\ fx.formSeen = IF \A k \in 1..3 : Seen(last, k) THEN "yes" ELSE "no"
       /\ fx.pc \in (IF fx.formSeen = "yes" THEN {"loggingIn"}
                                            ELSE {"alreadyAuthenticated"} \cup Yielding)
  /\ (fx.pc = "loggingIn" \/ HasStep(fx, "login")) => fx.formSeen = "yes"
  /\ last.op \in {"login", "verifyLoginSuccess"} => fx.formSeen = "yes"
  /\ fx.formSeen = "no" =>
       /\ ~HasStep(fx, "login")
       /\ fx.pc \in {"alreadyAuthenticated"} \cup Yielding
       /\ last.op = "isLoginFormDisplayed"

\* The probe of the password field rejected on a page showing the whole
\* form: the bundle is yielded, nobody is logged in and the email field is
\* still there.
C28_Witness ==
  /\ fx.pc = "ready"
  /\ fx.formSeen = "no"
  /\ last.op = "isLoginFormDisplayed"
  /\ last.f = <<"none", "ErrA", "none">>
  /\ FormEls \subseteq last.pre.vis
  /\ "email" \in page.vis
  /\ ~page.auth

(***************************************************************************)
(* Dialogs in a test case, by the fixtures it requests                     *)
(***************************************************************************)
\* A fixture that registers a dialog listener whichever it is.
FixtureHandlersAll(name) == {"dialog"}

\* The listeners a fixture registers on the page it is given: freshPage
\* its three, authenticatedPage and pages none.
FixtureHandlers(name) ==
  IF name = "freshPage" THEN {"dialog", "console", "pageerror"} ELSE {}

\* The test case sets up a fixture it requests, before its body runs.
CaseSetup ==
  /\ fresh.pc = "constructing"
  /\ \E name \in FixtureNames :
       /\ name \notin cases[1].fixtures
       /\ cases' = [cases EXCEPT ![1].fixtures = @ \cup {name},
                                 ![1].objs = @ \o FixtureObjects(name, cases[1].handle)]
       /\ fresh' = [fresh EXCEPT !.handlers = @ \cup FixtureHandlers(name)]
  /\ UNCHANGED <<page, objs, last, fx, prev, data, conc>>

\* The fixtures are set up and the body of the test starts.
CaseBody ==
  /\ fresh.pc = "constructing"
  /\ cases[1].fixtures # {}
  /\ fresh' = [fresh EXCEPT !.pc = "ready"]
  /\ UNCHANGED <<page, objs, last, fx, prev, cases, data, conc>>

CaseEnds ==
  /\ fresh.pc = "ready"
  /\ fresh' = [fresh EXCEPT !.pc = "tornDown"]
  /\ cases' = [cases EXCEPT ![1].pc = "done"]
  /\ UNCHANGED <<page, objs, last, fx, prev, data, conc>>

InitDialogs ==
  /\ page = LoginPageState(FormEls)
  /\ objs = <<>>
  /\ last = Idle
  /\ fx = FxIdle
  /\ prev = NoPrev
  /\ fresh = [FreshIdle EXCEPT !.pc = "constructing"]
  /\ cases = <<[handle |-> H1, pc |-> "running", fixtures |-> {}, objs |-> <<>>]>>
  /\ data = <<>>
  /\ conc = <<>>

NextDialogs ==
  \/ CaseSetup \/ CaseBody \/ DialogOpens \/ DialogHandler \/ AnswerSettles
  \/ ConsoleMessage \/ PageError \/ CaseEnds

SpecDialogs == InitDialogs /\ [][NextDialogs]_vars

\* C30: only the freshPage fixture installs the handler that accepts
\* dialogs; in a test case that requests authenticatedPage or pages and
\* not freshPage no dialog handler is registered, and no dialog raised
\* during the test is accepted.
C30_OnlyFreshPageAcceptsDialogs ==
  /\ "dialog" \in fresh.handlers <=> "freshPage" \in cases[1].fixtures
  /\ "freshPage" \notin cases[1].fixtures =>
       /\ fresh.handlers = {}
       /\ \A i \in DOMAIN fresh.dialogs :
            /\ fresh.dialogs[i].state \notin {"open", "answering", "accepted"}
            /\ fresh.dialogs[i].answer = "none"

\* A test case holding authenticatedPage and pages whose page raised a
\* dialog: nothing answered it and it was dismissed.
C30_Witness ==
  /\ cases[1].fixtures = {"authenticatedPage", "pages"}
  /\ fresh.pc = "ready"
  /\ Len(fresh.dialogs) = 1
  /\ fresh.dialogs[1] = [state |-> "dismissed", answer |-> "none"]

====
